---- MODULE Spec2Model ----
(***************************************************************************)
(* A model of the prism Layer-4 reverse proxy (crates/prism/src/prism):    *)
(* the tunnel manager's client/primary registry, the auto-listener's       *)
(* reconcile, the middleware chain, the router, the status cache, the      *)
(* routing handler, datagram framing, the register request, the UDP        *)
(* dataplane, the tunnel server's sessions, the tunnel client's retry      *)
(* loop, shutdown of the long-lived loops, configuration reload, the       *)
(* auto-listen listener tasks, the bounds checks on a module's output, the *)
(* middleware provider, the varint codec, the manager's dials, the chain's *)
(* rewrite pass, the tunnel-backed UDP session loop, the cached status     *)
(* path's fallback buffer, and the auto-listener's run loop on the         *)
(* manager's watch channel.                                                *)
(*                                                                         *)
(* Strings are sequences of one-character strings, byte buffers are        *)
(* sequences of small integers, Option<T> is a set with at most one        *)
(* element, and a HashMap is a function whose DOMAIN is its key set.       *)
(***************************************************************************)
EXTENDS Integers, Sequences, FiniteSets, TLC

VARIABLES
    \* ---- tunnel::manager::Manager ----
    clients,      \* State.clients : id -> ClientConn
    primary,      \* State.primary : service name -> client id
    now,          \* the monotonic clock read by Instant::now()
    mgrLast       \* history: the last manager call that returned, what it owned, close called

mgrVars == <<clients, primary, now, mgrLast>>

VARIABLES
    \* ---- middleware::ChainMiddleware::parse on one input ----
    chMods,       \* ChainMiddleware.middlewares
    chPrelude,    \* the prelude handed to parse
    chResult      \* None until parse returned, then Some(result)

chainVars == <<chMods, chPrelude, chResult>>

VARIABLES
    \* ---- router::Router ----
    compiled,     \* Router.compiled: the ArcSwap pointer, as an index into `tables`
    tables,       \* every Arc<CompiledRoutes> built so far
    rr,           \* CompiledRoute.rr of every route of every table
    hits,         \* history: matching resolutions of every round-robin route
    rs            \* the resolve / resolve_prelude calls, one per caller

routerVars == <<compiled, tables, rr, hits, rs>>

VARIABLES
    \* ---- proxy::StatusCache ----
    items,        \* StatusCache.items: key -> StatusCacheItem
    inflight,     \* StatusCache.inflight: key -> the InFlight, as an index into `flights`
    flights,      \* every InFlight created so far
    clock,        \* Instant::now() as the cache reads it
    cs            \* the status requests, one per connection task

cacheVars == <<items, inflight, flights, clock, cs>>

VARIABLES
    \* ---- tunnel::autolisten::AutoListener ----
    running,      \* AutoListener.running: key -> RunningListener
    spawned,      \* reconcile runs that spawned listener tasks
    stopped,      \* the tasks the last reconcile told to stop and aborted
    au            \* the reconcile call of AutoListener::run, and what the last one saw

autoVars == <<running, spawned, stopped, au>>

VARIABLES
    \* ---- proxy::handle_routing on one accepted connection ----
    cli,          \* the client's side of conn: bytes not yet read, and whether it closed
    hr            \* the handler: its position, rt, captured, the dial loop, the upstream

routingVars == <<cli, hr>>

VARIABLES
    \* ---- tunnel::datagram::DatagramConn over one stream ----
    dgWire,       \* bytes written to the stream and not yet read
    dgWrites,     \* history: the write_datagram calls and whether each was accepted
    dgReads       \* history: what the read_datagram calls returned

dgVars == <<dgWire, dgWrites, dgReads>>

VARIABLES
    \* ---- tunnel::protocol: one register request on its way ----
    rg            \* the request, the bytes on the stream, what the reader returned

regVars == <<rg>>

VARIABLES
    \* ---- proxy::serve_udp_with_shutdown on one public socket ----
    sessions,     \* the DashMap: peer address -> UdpSession, as an index into `udps`
    udps,         \* every UdpSession created so far, with its channel and its task
    ua,           \* the acceptor loop: its position and the locals of the datagram in hand
    sweep,        \* udp_sweep_loop: its position and to_remove
    unix_ms,      \* telemetry::now_unix_ms()
    uopts         \* UdpForwardOptions

udpVars == <<sessions, udps, ua, sweep, unix_ms, uopts>>

VARIABLES
    \* ---- tunnel::server::Server ----
    srv,          \* the handle_session tasks spawned so far
    id_seq,       \* Manager.id_seq
    srvopts       \* ServerOptions

srvVars == <<srv, id_seq, srvopts>>

VARIABLES
    \* ---- tunnel::client::Client ----
    tc            \* tunnel::client::Client::run and its locals

clientVars == <<tc>>

VARIABLES
    \* ---- app::run and the loops it spawns ----
    sd,           \* app::run from its select on and the shutdown watch
    lp            \* the long-lived loops and their shutdown receivers

shutdownVars == <<sd, lp>>

VARIABLES
    \* ---- app::reload_loop and apply_reload ----
    rl,           \* the locals of reload_loop and the position of apply_reload
    tcprt         \* the TcpRuntimeConfig behind the RwLock

reloadVars == <<rl, tcprt>>

VARIABLES
    \* ---- tunnel::autolisten: the listener tasks ----
    ul,           \* run_udp_listener: its position and the flows map
    tl            \* run_tcp_listener: its position and the connection tasks it spawned

listenVars == <<ul, tl>>

VARIABLES
    \* ---- middleware::WasmMiddleware::apply_impl ----
    wm            \* one call of WasmMiddleware::apply_impl from the return of prism_mw_run on

wasmVars == <<wm>>

VARIABLES
    \* ---- middleware::FsWasmMiddlewareProvider ----
    pv,           \* FsWasmMiddlewareProvider: the cache and as history the compilations
    gets          \* the calls of get in progress by thread

providerVars == <<pv, gets>>

VARIABLES
    \* ---- tunnel::protocol::write_varint, read_varint and proxy::read_varint ----
    vi            \* one value through write_varint and one of the two read_varint

varintVars == <<vi>>

VARIABLES
    \* ---- Manager dials ----
    dl            \* the dial in flight - what it was asked and the session it holds and its outcome

dialVars == <<dl>>

VARIABLES
    \* ---- ChainMiddleware::rewrite ----
    rwc           \* one call of ChainMiddleware::rewrite - its arguments and loop variables and the calls it made

rewriteVars == <<rwc>>

VARIABLES
    \* ---- udp_session_loop with a tunnel upstream ----
    tu            \* udp_session_loop on a tunnel upstream - the substream and the pending read and the channel

tunVars == <<tu>>

VARIABLES
    \* ---- try_handle_minecraft_status_cached ----
    sp            \* try_handle_minecraft_status_cached - the buffers and the client's bytes and what it returned

statusVars == <<sp>>

VARIABLES
    \* ---- AutoListener::run ----
    wch           \* AutoListener::run and the manager's watch channel as its receiver sees it

runVars == <<wch>>

vars == <<mgrVars, chainVars, routerVars, cacheVars, autoVars, routingVars, dgVars, regVars, udpVars, srvVars, clientVars, shutdownVars, reloadVars, listenVars, wasmVars, providerVars, varintVars, dialVars, rewriteVars, tunVars, statusVars, runVars>>

\* What the actions of one component leave alone.
notMgrVars == <<chainVars, routerVars, cacheVars, routingVars, dgVars, regVars, udpVars, srvVars, clientVars, shutdownVars, reloadVars, listenVars, wasmVars, providerVars, varintVars, rewriteVars, tunVars, statusVars, runVars>>
notMgrRunVars == <<chainVars, routerVars, cacheVars, routingVars, dgVars, regVars, udpVars, srvVars, clientVars, shutdownVars, reloadVars, listenVars, wasmVars, providerVars, varintVars, rewriteVars, tunVars, statusVars>>
notChainVars == <<mgrVars, routerVars, cacheVars, autoVars, routingVars, dgVars, regVars, udpVars, srvVars, clientVars, shutdownVars, reloadVars, listenVars, wasmVars, providerVars, varintVars, dialVars, rewriteVars, tunVars, statusVars, runVars>>
notRouterVars == <<mgrVars, chainVars, cacheVars, autoVars, routingVars, dgVars, regVars, udpVars, srvVars, clientVars, shutdownVars, reloadVars, listenVars, wasmVars, providerVars, varintVars, dialVars, rewriteVars, tunVars, statusVars, runVars>>
notCacheVars == <<mgrVars, chainVars, routerVars, autoVars, routingVars, dgVars, regVars, udpVars, srvVars, clientVars, shutdownVars, reloadVars, listenVars, wasmVars, providerVars, varintVars, dialVars, rewriteVars, tunVars, statusVars, runVars>>
notAutoVars == <<chainVars, routerVars, cacheVars, routingVars, dgVars, regVars, udpVars, srvVars, clientVars, shutdownVars, reloadVars, listenVars, wasmVars, providerVars, varintVars, dialVars, rewriteVars, tunVars, statusVars, runVars>>
notAutoRunVars == <<chainVars, routerVars, cacheVars, routingVars, dgVars, regVars, udpVars, srvVars, clientVars, shutdownVars, reloadVars, listenVars, wasmVars, providerVars, varintVars, dialVars, rewriteVars, tunVars, statusVars>>
notRoutingVars == <<chainVars, cacheVars, autoVars, dgVars, regVars, udpVars, srvVars, clientVars, shutdownVars, reloadVars, listenVars, wasmVars, providerVars, varintVars, dialVars, rewriteVars, tunVars, statusVars, runVars>>
notDgVars == <<mgrVars, chainVars, routerVars, cacheVars, autoVars, routingVars, regVars, udpVars, srvVars, clientVars, shutdownVars, reloadVars, listenVars, wasmVars, providerVars, varintVars, dialVars, rewriteVars, tunVars, statusVars, runVars>>
notRegVars == <<mgrVars, chainVars, routerVars, cacheVars, autoVars, routingVars, dgVars, udpVars, srvVars, clientVars, shutdownVars, reloadVars, listenVars, wasmVars, providerVars, varintVars, dialVars, rewriteVars, tunVars, statusVars, runVars>>
notUdpVars == <<mgrVars, chainVars, routerVars, cacheVars, autoVars, routingVars, dgVars, regVars, srvVars, clientVars, shutdownVars, reloadVars, listenVars, wasmVars, providerVars, varintVars, dialVars, rewriteVars, tunVars, statusVars, runVars>>
notSrvVars == <<mgrVars, chainVars, routerVars, cacheVars, autoVars, routingVars, dgVars, regVars, udpVars, clientVars, shutdownVars, reloadVars, listenVars, wasmVars, providerVars, varintVars, dialVars, rewriteVars, tunVars, statusVars, runVars>>
notSrvMgrVars == <<chainVars, routerVars, cacheVars, autoVars, routingVars, dgVars, regVars, udpVars, clientVars, shutdownVars, reloadVars, listenVars, wasmVars, providerVars, varintVars, rewriteVars, tunVars, statusVars, runVars>>
notClientVars == <<mgrVars, chainVars, routerVars, cacheVars, autoVars, routingVars, dgVars, regVars, udpVars, srvVars, shutdownVars, reloadVars, listenVars, wasmVars, providerVars, varintVars, dialVars, rewriteVars, tunVars, statusVars, runVars>>
notShutdownVars == <<mgrVars, chainVars, routerVars, cacheVars, autoVars, routingVars, dgVars, regVars, udpVars, srvVars, clientVars, reloadVars, listenVars, wasmVars, providerVars, varintVars, dialVars, rewriteVars, tunVars, statusVars, runVars>>
notReloadVars == <<mgrVars, chainVars, routerVars, cacheVars, autoVars, routingVars, dgVars, regVars, udpVars, srvVars, clientVars, shutdownVars, listenVars, wasmVars, providerVars, varintVars, dialVars, rewriteVars, tunVars, statusVars, runVars>>
notRouterReloadVars == <<mgrVars, chainVars, cacheVars, autoVars, routingVars, dgVars, regVars, udpVars, srvVars, clientVars, shutdownVars, listenVars, wasmVars, providerVars, varintVars, dialVars, rewriteVars, tunVars, statusVars, runVars>>
notListenVars == <<mgrVars, chainVars, routerVars, cacheVars, autoVars, routingVars, dgVars, regVars, udpVars, srvVars, clientVars, shutdownVars, reloadVars, wasmVars, providerVars, varintVars, dialVars, rewriteVars, tunVars, statusVars, runVars>>
notWasmVars == <<mgrVars, chainVars, routerVars, cacheVars, autoVars, routingVars, dgVars, regVars, udpVars, srvVars, clientVars, shutdownVars, reloadVars, listenVars, providerVars, varintVars, dialVars, rewriteVars, tunVars, statusVars, runVars>>
notProviderVars == <<mgrVars, chainVars, routerVars, cacheVars, autoVars, routingVars, dgVars, regVars, udpVars, srvVars, clientVars, shutdownVars, reloadVars, listenVars, wasmVars, varintVars, dialVars, rewriteVars, tunVars, statusVars, runVars>>
notVarintVars == <<mgrVars, chainVars, routerVars, cacheVars, autoVars, routingVars, dgVars, regVars, udpVars, srvVars, clientVars, shutdownVars, reloadVars, listenVars, wasmVars, providerVars, dialVars, rewriteVars, tunVars, statusVars, runVars>>
notDialVars == <<mgrVars, chainVars, routerVars, cacheVars, autoVars, routingVars, dgVars, regVars, udpVars, srvVars, clientVars, shutdownVars, reloadVars, listenVars, wasmVars, providerVars, varintVars, rewriteVars, tunVars, statusVars, runVars>>
notRewriteVars == <<mgrVars, chainVars, routerVars, cacheVars, autoVars, routingVars, dgVars, regVars, udpVars, srvVars, clientVars, shutdownVars, reloadVars, listenVars, wasmVars, providerVars, varintVars, dialVars, tunVars, statusVars, runVars>>
notTunVars == <<mgrVars, chainVars, routerVars, cacheVars, autoVars, routingVars, dgVars, regVars, udpVars, srvVars, clientVars, shutdownVars, reloadVars, listenVars, wasmVars, providerVars, varintVars, dialVars, rewriteVars, statusVars, runVars>>
notStatusVars == <<mgrVars, chainVars, routerVars, cacheVars, autoVars, routingVars, dgVars, regVars, udpVars, srvVars, clientVars, shutdownVars, reloadVars, listenVars, wasmVars, providerVars, varintVars, dialVars, rewriteVars, tunVars, runVars>>
notRunVars == <<mgrVars, chainVars, routerVars, cacheVars, autoVars, routingVars, dgVars, regVars, udpVars, srvVars, clientVars, shutdownVars, reloadVars, listenVars, wasmVars, providerVars, varintVars, dialVars, rewriteVars, tunVars, statusVars>>

(***************************************************************************)
(* Bounds of the model.                                                    *)
(***************************************************************************)
MaxTime == 1        \* the clock stops advancing here
MaxChain == 2       \* modules in a middleware chain
MaxPrelude == 3     \* bytes of a captured prelude
MaxUpdates == 1     \* Router::update calls per behaviour
MaxResolves == 4    \* matching resolutions of one route of one table
MaxClock == 1       \* readings of the status cache's clock
MaxFlights == 2     \* InFlight records created per behaviour
MaxSpawns == 2      \* reconcile runs that start listeners
MaxRead == 2        \* bytes one conn.read returns
MaxClientBytes == 3  \* bytes the client sends after its handshake
MaxInbound == 2      \* datagrams of the source peer during one session
MaxFrames == 3      \* write_datagram calls on one stream
MaxStatusPacket == 2    \* the largest status request read (64 KiB in the source)
MAX_DATAGRAM_BYTES == 2   \* the largest payload a frame may carry
MAX_REGISTER_JSON_BYTES == 125   \* the longest request body the server reads
MaxServices == 3    \* services in one register request
MaxSessions == 3    \* UdpSession values created per behaviour
MaxUnixMs == 2      \* the wall clock stops advancing here
SessionQueueCapacity == 1   \* datagrams a session's channel holds (128 in the source)
MaxTunnelSessions == 2   \* transport sessions the tunnel server accepts
MaxUnsolicited == 1      \* streams a client opens that nobody asked for, per session
MaxRetries == 6          \* waits of the tunnel client per behaviour
MaxDial == 3             \* seconds the slowest dial needs
MaxStreams == 1     \* proxy streams counted on one client session
MaxReloads == 3     \* apply_reload calls per behaviour
MaxFlowWrites == 2  \* datagrams written on one auto-listen flow
MaxConns == 2       \* connections one auto-listen TCP listener accepts
MaxGets == 2        \* calls of get by one thread

(***************************************************************************)
(* Generic helpers: maps and options.                                      *)
(***************************************************************************)
EmptyMap == [x \in {} |-> x]
MapPut(f, k, v) == [x \in DOMAIN f \cup {k} |-> IF x = k THEN v ELSE f[x]]
MapDel(f, k) == [x \in DOMAIN f \ {k} |-> f[x]]
None == {}
Some(x) == {x}
Unwrap(o) == CHOOSE x \in o : TRUE

(***************************************************************************)
(* str::trim and str::to_ascii_lowercase.                                  *)
(***************************************************************************)
IsWhitespace(c) == c \in {" ", "\t"}

RECURSIVE TrimStart(_)
TrimStart(s) ==
    IF s = <<>> THEN s
    ELSE IF IsWhitespace(Head(s)) THEN TrimStart(Tail(s)) ELSE s

RECURSIVE TrimEnd(_)
TrimEnd(s) ==
    IF s = <<>> THEN s
    ELSE IF IsWhitespace(s[Len(s)]) THEN TrimEnd(SubSeq(s, 1, Len(s) - 1)) ELSE s

Trim(s) == TrimEnd(TrimStart(s))

ToAsciiLowercaseChar(c) ==
    CASE c = "A" -> "a"
      [] c = "B" -> "b"
      [] c = "C" -> "c"
      [] c = "T" -> "t"
      [] c = "U" -> "u"
      [] c = "D" -> "d"
      [] c = "P" -> "p"
      [] c = "R" -> "r"
      [] c = "X" -> "x"
      [] OTHER -> c

ToAsciiLowercase(s) == [i \in 1..Len(s) |-> ToAsciiLowercaseChar(s[i])]

(***************************************************************************)
(* tunnel::protocol::RegisteredService                                     *)
(***************************************************************************)
RegisteredService(name, proto, local_addr, route_only, remote_addr, masquerade_host) ==
    [name |-> name, proto |-> proto, local_addr |-> local_addr,
     route_only |-> route_only, remote_addr |-> remote_addr,
     masquerade_host |-> masquerade_host]

\* RegisteredService::normalize: None for an empty trimmed name.
Normalize(s) ==
    LET name == Trim(s.name)
        proto0 == ToAsciiLowercase(Trim(s.proto))
        proto == IF proto0 = <<>> THEN <<"t", "c", "p">> ELSE proto0
        remote0 == Trim(s.remote_addr)
    IN  IF name = <<>> THEN None
        ELSE Some(RegisteredService(
                 name, proto, Trim(s.local_addr), s.route_only,
                 IF s.route_only THEN <<>> ELSE remote0,
                 ToAsciiLowercase(Trim(s.masquerade_host))))

(***************************************************************************)
(* tunnel::manager                                                         *)
(***************************************************************************)
\* `for s in services { if let Some(ns) = s.normalize() { cc.services.insert(ns.name, ns) } }`
RECURSIVE CollectServices(_, _)
CollectServices(services, acc) ==
    IF services = <<>> THEN acc
    ELSE LET ns == Normalize(Head(services))
         IN  CollectServices(
                 Tail(services),
                 IF ns = None THEN acc ELSE MapPut(acc, Unwrap(ns).name, Unwrap(ns)))

ClientConn(id, services, started) ==
    [id |-> id, services |-> services, started |-> started]

\* promote_primary_locked: the loop keeps the first client it meets among those
\* with the smallest `started` (a later one replaces it only when strictly older);
\* HashMap iteration order is unspecified, so any of the oldest may be chosen.
PromoteNewest(cl, service_name) ==
    LET cands == {cid \in DOMAIN cl : service_name \in DOMAIN cl[cid].services}
    IN  {c \in cands : \A d \in cands : cl[c].started >= cl[d].started}

PromoteOldest(cl, service_name) ==
    LET cands == {cid \in DOMAIN cl : service_name \in DOMAIN cl[cid].services}
    IN  {c \in cands : \A d \in cands : cl[c].started <= cl[d].started}

PromoteNobody(cl, pr, service_name) == {pr}

PromotePrimaryLocked(cl, pr, service_name) ==
    LET chosen == PromoteOldest(cl, service_name)
    IN  IF chosen = {} THEN {pr}
        ELSE {MapPut(pr, service_name, cid) : cid \in chosen}

\* `if st.primary.get(name).is_some_and(|v| v == id) { remove; promote }`
ReelectOne(cl, pr, name, id) ==
    IF name \in DOMAIN pr /\ pr[name] = id
    THEN PromotePrimaryLocked(cl, MapDel(pr, name), name)
    ELSE {pr}

\* `for name in old.services.keys() { ... }`: every primary map the loop can end with.
RECURSIVE ReelectOwned(_, _, _, _)
ReelectOwned(cl, pr, names, id) ==
    IF names = {} THEN {pr}
    ELSE LET n == CHOOSE x \in names : TRUE
         IN  UNION {ReelectOwned(cl, pr2, names \ {n}, id) : pr2 \in ReelectOne(cl, pr, n, id)}

\* `st.primary.entry(name).or_insert_with(|| id)` for every service of the new client.
LastWriterWins(pr, names, id) ==
    [n \in DOMAIN pr \cup names |-> IF n \in names THEN id ELSE pr[n]]

FirstWriterWins(pr, names, id) ==
    [n \in DOMAIN pr \cup names |-> IF n \in DOMAIN pr THEN pr[n] ELSE id]

OwnedBy(pr, id) == {n \in DOMAIN pr : pr[n] = id}

\* A re-election that still sees the old registration among the clients.
ReplaceOldInPlace(cl, pr, id) == ReelectOwned(cl, pr, DOMAIN cl[id].services, id)

\* `if let Some(old) = st.clients.remove(&id) { ...; for name in old.services.keys()
\* { ... } }`: the old entry is out of the map when its names are re-elected, the
\* new one is not yet in.
ReplaceOld(cl, pr, id) == ReelectOwned(MapDel(cl, id), pr, DOMAIN cl[id].services, id)

\* A replacement that leaves the old session open.
SessionLeftOpen(replaced) == FALSE

\* `if let Some(old) = st.clients.remove(&id) { old.sess.close().await; ... }`:
\* close is called exactly when an entry was removed.
SessionClosed(replaced) == replaced

\* A dial: the arguments of dial_service_*_inner, the session it cloned under
\* the read lock (the session of client `sess`'s registration at that time),
\* whether that session has been closed since, and what the call returned.
DialCall(pc, kind, pinned, service, sess, closed, out) ==
    [pc |-> pc, kind |-> kind, pinned |-> pinned, service |-> service, sess |-> sess,
     closed |-> closed, out |-> out]

NoDial == DialCall("idle", "none", None, <<>>, None, FALSE, "none")

DialIdle == dl = NoDial

\* `old.sess.close()` / `cc.sess.close()` on a session a dial holds a clone of.
CloseHeld(d, id) == IF d.sess = Some(id) THEN [d EXCEPT !.closed = TRUE] ELSE d

\* The client a dial picks when the pinned id is ignored.
DialPickPrimary(pr, pinned, service) ==
    IF service \in DOMAIN pr THEN Some(pr[service]) ELSE None

\* `cid`: the pinned id trimmed, or primary[service].
DialPick(pr, pinned, service) ==
    IF pinned # None THEN Some(Trim(Unwrap(pinned)))
    ELSE IF service \in DOMAIN pr THEN Some(pr[service]) ELSE None

\* The block under the read lock: the session to dial on, if any.
DialSelect(cl, pr, pinned, service) ==
    LET cid == DialPick(pr, pinned, service)
    IN  IF cid = None THEN None
        ELSE IF Unwrap(cid) \notin DOMAIN cl THEN None
        ELSE IF service \notin DOMAIN cl[Unwrap(cid)].services THEN None
        ELSE cid

\* A lookup with the name as given.
HasServiceExact(pr, service) == service \in DOMAIN pr

\* has_service: `st.primary.contains_key(service.trim())`
HasService(pr, service) == Trim(service) \in DOMAIN pr

\* register_client.  The ClientConn is built, and `started` read from the clock,
\* before the write lock is awaited, so a call that gets the lock at `now` may
\* carry any earlier reading: calls get the lock in an order that need not be
\* the order of their `started`.  Everything from the lock on is one critical
\* section.
RegisterClientLocked(id, services, started) ==
    /\ Trim(id) # <<>>
    /\ started \in 0..now
    /\ LET cc == ClientConn(id, CollectServices(services, EmptyMap), started)
           replaced == id \in DOMAIN clients
           cl1 == MapDel(clients, id)
           prs == IF replaced THEN ReplaceOld(clients, primary, id) ELSE {primary}
       IN  /\ \E pr1 \in prs : primary' = FirstWriterWins(pr1, DOMAIN cc.services, id)
           /\ clients' = MapPut(cl1, id, cc)
           /\ mgrLast' = [op |-> "register", id |-> id, owned |-> OwnedBy(primary, id),
                          closed |-> SessionClosed(replaced)]
           /\ dl' = IF SessionClosed(replaced) THEN CloseHeld(dl, id) ELSE dl

RegisterClient(id, services, started) ==
    /\ RegisterClientLocked(id, services, started)
    /\ UNCHANGED <<now, autoVars, notMgrVars>>

\* unregister_client for a registered id (an unknown or empty id returns at once).
UnregisterClientLocked(rawid) ==
    LET id == Trim(rawid)
    IN  /\ id # <<>>
        /\ id \in DOMAIN clients
        /\ LET cl1 == MapDel(clients, id)
           IN  /\ primary' \in ReelectOwned(cl1, primary, DOMAIN clients[id].services, id)
               /\ clients' = cl1
        /\ mgrLast' = [op |-> "unregister", id |-> id, owned |-> OwnedBy(primary, id),
                       closed |-> TRUE]
        /\ dl' = CloseHeld(dl, id)

UnregisterClient(rawid) ==
    /\ UnregisterClientLocked(rawid)
    /\ UNCHANGED <<now, autoVars, notMgrVars>>

\* dial_service_tcp_inner / dial_service_udp_inner up to the end of the read
\* lock: an empty service name and a failed lookup return ServiceNotFound,
\* otherwise the call leaves the lock with a clone of the session.
DialLookup(kind, pinned, rawservice) ==
    /\ dl.pc = "idle"
    /\ LET service == Trim(rawservice)
           sess == IF service = <<>> THEN None
                   ELSE DialSelect(clients, primary, pinned, service)
       IN  dl' = IF sess = None
                 THEN DialCall("done", kind, pinned, service, None, FALSE, "ServiceNotFound")
                 ELSE DialCall("selected", kind, pinned, service, sess, FALSE, "none")
    /\ UNCHANGED <<mgrVars, autoVars, notMgrVars>>

\* `sess.open_stream()` and write_proxy_stream_header, outside the lock: a
\* closed session opens nothing, and either error becomes ServiceNotFound.
DialOpen(opened, written) ==
    /\ dl.pc = "selected"
    /\ dl' = [dl EXCEPT !.pc = "done",
                        !.out = IF ~dl.closed /\ opened /\ written THEN "Ok"
                                ELSE "ServiceNotFound"]
    /\ UNCHANGED <<mgrVars, autoVars, notMgrVars>>

\* The caller is done with the stream or the error; the next dial may start.
DialReturn ==
    /\ dl.pc = "done"
    /\ dl' = NoDial
    /\ UNCHANGED <<mgrVars, autoVars, notMgrVars>>

\* Instant::now() is monotonic.
Tick ==
    /\ now < MaxTime
    /\ now' = now + 1
    /\ UNCHANGED <<clients, primary, mgrLast, dl, autoVars, notMgrVars>>

MgrInit ==
    /\ clients = EmptyMap
    /\ primary = EmptyMap
    /\ now = 0
    /\ mgrLast = [op |-> "new", id |-> <<>>, owned |-> {}, closed |-> FALSE]

(***************************************************************************)
(* middleware: WasmMiddleware::apply_impl and ChainMiddleware::parse        *)
(***************************************************************************)
Bytes == 0..3
NeedMoreData == [ok |-> FALSE, err |-> "NeedMoreData"]
NoMatch == [ok |-> FALSE, err |-> "NoMatch"]
Fatal == [ok |-> FALSE, err |-> "Fatal"]
MiddlewareOutput(host, rewrite) == [ok |-> TRUE, host |-> host, rewrite |-> rewrite]

\* What prism_mw_run returned: 0, 1, -1, or (code 2) a packed pointer to an
\* output record whose host and rewrite slices are given here by content.
WasmNeed == [code |-> 0, host |-> <<>>, rw |-> <<>>]
WasmNoMatch == [code |-> 1, host |-> <<>>, rw |-> <<>>]
WasmFatal == [code |-> -1, host |-> <<>>, rw |-> <<>>]
WasmEmit(host, rw) == [code |-> 2, host |-> host, rw |-> rw]

\* The host string a parser module finds behind a selector byte of the prelude:
\* as sent by the client, so in any case and with padding.
HostOfByte(b) ==
    CASE b = 1 -> <<"a", ".", "x">>
      [] b = 2 -> <<" ", "B", ".", "X", " ">>
      [] b = 3 -> <<" ">>
      [] OTHER -> <<>>

\* The modules under middleware_dir, by their behaviour in the parse phase:
\*   mc    a handshake parser: tag byte 1, then the host selector
\*   sni   a second parser: tag byte 2, then the host selector
\*   strip rewrites the prelude (drops a leading header byte 3), emits no host
\*   trap  always fails
WasmRun(m, prelude) ==
    CASE m = "mc" ->
           IF Len(prelude) < 2 THEN WasmNeed
           ELSE IF prelude[1] # 1 THEN WasmNoMatch
           ELSE WasmEmit(HostOfByte(prelude[2]), <<>>)
      [] m = "sni" ->
           IF Len(prelude) < 2 THEN WasmNeed
           ELSE IF prelude[1] # 2 THEN WasmNoMatch
           ELSE WasmEmit(HostOfByte(prelude[2]), <<>>)
      [] m = "strip" ->
           IF Len(prelude) < 1 THEN WasmNeed
           ELSE IF prelude[1] # 3 THEN WasmNoMatch
           ELSE WasmEmit(<<>>, Tail(prelude))
      [] OTHER -> WasmFatal

Modules == {"mc", "sni", "strip", "trap"}

\* The same modules in the rewrite phase, with the selected upstream (a byte):
\*   mc    puts the upstream in place of the host selector of a handshake
\*   sni   knows no phases: it still emits the host and no rewrite
\*   strip drops a leading header byte 3
\*   trap  always fails
WasmRunRewrite(m, prelude, selected_upstream) ==
    CASE m = "mc" ->
           IF Len(prelude) < 2 THEN WasmNeed
           ELSE IF prelude[1] # 1 THEN WasmNoMatch
           ELSE WasmEmit(<<>>, <<1, selected_upstream>> \o SubSeq(prelude, 3, Len(prelude)))
      [] m = "sni" ->
           IF Len(prelude) < 2 THEN WasmNeed
           ELSE IF prelude[1] # 2 THEN WasmNoMatch
           ELSE WasmEmit(HostOfByte(prelude[2]), <<>>)
      [] m = "strip" ->
           IF Len(prelude) < 1 THEN WasmNeed
           ELSE IF prelude[1] # 3 THEN WasmNoMatch
           ELSE WasmEmit(<<>>, Tail(prelude))
      [] OTHER -> WasmFatal

\* WasmMiddleware::apply_impl from the return value on.
ApplyImplFrom(out) ==
    LET host == IF Len(out.host) > 0 /\ ToAsciiLowercase(Trim(out.host)) # <<>>
                THEN Some(ToAsciiLowercase(Trim(out.host))) ELSE None
        rewrite == IF Len(out.rw) > 0 THEN Some(out.rw) ELSE None
    IN  IF out.code = 0 THEN NeedMoreData
        ELSE IF out.code = 1 THEN NoMatch
        ELSE IF out.code = -1 THEN Fatal
        ELSE IF host = None /\ rewrite = None THEN NoMatch
        ELSE MiddlewareOutput(host, rewrite)

ApplyImplRewrite(m, prelude, selected_upstream) ==
    ApplyImplFrom(WasmRunRewrite(m, prelude, selected_upstream))

ApplyImpl(m, prelude) == ApplyImplFrom(WasmRun(m, prelude))

ChainOk(host, rewritten) == [ok |-> TRUE, host |-> host, prelude_override |-> rewritten]

\* The loop of ChainMiddleware::parse from module i on.
RECURSIVE ChainParseFrom(_, _, _, _, _)
ChainParseFrom(mods, i, current, rewritten, need_more) ==
    IF i > Len(mods)
    THEN IF need_more THEN NeedMoreData ELSE NoMatch
    ELSE LET out == ApplyImpl(mods[i], current)
         IN  IF out.ok
             THEN LET cur2 == IF out.rewrite # None THEN Unwrap(out.rewrite) ELSE current
                      rw2 == IF out.rewrite # None THEN Some(cur2) ELSE rewritten
                      h == IF out.host # None
                           THEN ToAsciiLowercase(Trim(Unwrap(out.host))) ELSE <<>>
                  IN  IF out.host # None /\ h # <<>>
                      THEN ChainOk(h, rw2)
                      ELSE ChainParseFrom(mods, i + 1, cur2, rw2, need_more)
             ELSE ChainParseFrom(mods, i + 1, current, rewritten,
                                 need_more \/ out.err = "NeedMoreData")

\* A parse loop that gives up at the first module that fails.
RECURSIVE ChainParseFatalStopsFrom(_, _, _, _, _)
ChainParseFatalStopsFrom(mods, i, current, rewritten, need_more) ==
    IF i > Len(mods)
    THEN IF need_more THEN NeedMoreData ELSE NoMatch
    ELSE LET out == ApplyImpl(mods[i], current)
         IN  IF out.ok
             THEN LET cur2 == IF out.rewrite # None THEN Unwrap(out.rewrite) ELSE current
                      rw2 == IF out.rewrite # None THEN Some(cur2) ELSE rewritten
                      h == IF out.host # None
                           THEN ToAsciiLowercase(Trim(Unwrap(out.host))) ELSE <<>>
                  IN  IF out.host # None /\ h # <<>>
                      THEN ChainOk(h, rw2)
                      ELSE ChainParseFatalStopsFrom(mods, i + 1, cur2, rw2, need_more)
             ELSE IF out.err = "Fatal" THEN NoMatch
             ELSE ChainParseFatalStopsFrom(mods, i + 1, current, rewritten,
                                           need_more \/ out.err = "NeedMoreData")

ChainParseFatalStops(mods, prelude) ==
    ChainParseFatalStopsFrom(mods, 1, prelude, None, FALSE)

ChainParse(mods, prelude) == ChainParseFrom(mods, 1, prelude, None, FALSE)

SeqsUpTo(S, n) == UNION {[1..k -> S] : k \in 0..n}

\* One call of ChainMiddleware::parse.
ChainInit ==
    /\ chMods \in SeqsUpTo(Modules, MaxChain)
    /\ chPrelude \in SeqsUpTo(Bytes, MaxPrelude)
    /\ chResult = None

ChainParseCall ==
    /\ chResult = None
    /\ chResult' = Some(ChainParse(chMods, chPrelude))
    /\ UNCHANGED <<chMods, chPrelude, notChainVars>>

\* One call of ChainMiddleware::rewrite: `next` is the module the loop is at,
\* `calls` the applications made so far (module, buffer given, what came back).
RewriteCall(pc, mods, prelude, selected_upstream) ==
    [pc |-> pc, mods |-> mods, prelude |-> prelude, selected_upstream |-> selected_upstream,
     next |-> 1, current |-> prelude, changed |-> FALSE, calls |-> <<>>, result |-> None]

RewriteIdle == rwc = RewriteCall("idle", <<>>, <<>>, 0)

\* A loop that hands every module the prelude as it came in.
RewriteInputOriginal(st) == st.prelude

\* `m.apply(&current, &ctx)`
RewriteInput(st) == st.current

\* One iteration of the loop: a rewrite replaces `current`, anything else
\* (an output without a rewrite, any error) changes nothing.
ChainRewriteStep ==
    /\ rwc.pc = "loop"
    /\ rwc.next <= Len(rwc.mods)
    /\ LET m == rwc.mods[rwc.next]
           buf == RewriteInput(rwc)
           out == ApplyImplRewrite(m, buf, rwc.selected_upstream)
           rewrote == out.ok /\ out.rewrite # None
       IN  rwc' = [rwc EXCEPT
                      !.next = @ + 1,
                      !.current = IF rewrote THEN Unwrap(out.rewrite) ELSE @,
                      !.changed = @ \/ rewrote,
                      !.calls = Append(@, [m |-> m, buf |-> buf, out |-> out])]
    /\ UNCHANGED notRewriteVars

\* `if changed { Some(current) } else { None }`
ChainRewriteReturn ==
    /\ rwc.pc = "loop"
    /\ rwc.next > Len(rwc.mods)
    /\ rwc' = [rwc EXCEPT !.pc = "done",
                          !.result = IF rwc.changed THEN Some(rwc.current) ELSE None]
    /\ UNCHANGED notRewriteVars

(***************************************************************************)
(* router: compile                                                         *)
(***************************************************************************)
Contains(s, c) == \E i \in 1..Len(s) : s[i] = c

\* str::replace: every non-overlapping occurrence of pat, left to right.
RECURSIVE StrReplace(_, _, _)
StrReplace(s, pat, rep) ==
    IF Len(s) < Len(pat) THEN s
    ELSE IF SubSeq(s, 1, Len(pat)) = pat
         THEN rep \o StrReplace(SubSeq(s, Len(pat) + 1, Len(s)), pat, rep)
         ELSE <<Head(s)>> \o StrReplace(Tail(s), pat, rep)

HasSubstring(s, pat) == \E i \in 1..(Len(s) - Len(pat) + 1) : SubSeq(s, i, i + Len(pat) - 1) = pat

RECURSIVE CollapseDashes(_)
CollapseDashes(s) ==
    IF HasSubstring(s, <<"-", "-">>)
    THEN CollapseDashes(StrReplace(s, <<"-", "-">>, <<"-">>))
    ELSE s

Str_sequential == <<"s", "e", "q", "u", "e", "n", "t", "i", "a", "l">>
Str_random == <<"r", "a", "n", "d", "o", "m">>
Str_round_robin == <<"r", "o", "u", "n", "d", "-", "r", "o", "b", "i", "n">>
Str_roundrobin == <<"r", "o", "u", "n", "d", "r", "o", "b", "i", "n">>

ParseStrategy(str) ==
    LET s1 == ToAsciiLowercase(Trim(str))
        s2 == StrReplace(s1, <<"_">>, <<"-">>)
        s3 == StrReplace(s2, <<" ">>, <<"-">>)
        s4 == CollapseDashes(s3)
    IN  IF s4 = Str_random THEN "Random"
        ELSE IF s4 = Str_round_robin \/ s4 = Str_roundrobin THEN "RoundRobin"
        ELSE "Sequential"

RouteConfig(host, upstreams, strategy, middlewares) ==
    [host |-> host, upstreams |-> upstreams, strategy |-> strategy,
     middlewares |-> middlewares]

CompiledPattern(h) ==
    [pattern |-> h, exact |-> ~Contains(h, "*") /\ ~Contains(h, "?")]

RECURSIVE CompilePatterns(_)
CompilePatterns(hosts) ==
    IF hosts = <<>> THEN <<>>
    ELSE LET h == ToAsciiLowercase(Trim(Head(hosts)))
         IN  IF h = <<>> THEN CompilePatterns(Tail(hosts))
             ELSE <<CompiledPattern(h)>> \o CompilePatterns(Tail(hosts))

RECURSIVE TrimmedNonEmpty(_)
TrimmedNonEmpty(strs) ==
    IF strs = <<>> THEN <<>>
    ELSE IF Trim(Head(strs)) = <<>> THEN TrimmedNonEmpty(Tail(strs))
    ELSE <<Trim(Head(strs))>> \o TrimmedNonEmpty(Tail(strs))

\* compile_route: None when no pattern or no upstream is left.
CompileRoute(rt, middleware) ==
    LET patterns == CompilePatterns(rt.host)
        upstreams == TrimmedNonEmpty(rt.upstreams)
    IN  IF patterns = <<>> \/ upstreams = <<>> THEN None
        ELSE Some([patterns |-> patterns, upstreams |-> upstreams,
                   strategy |-> ParseStrategy(rt.strategy), middleware |-> middleware])

\* The loop of Router::update: routes that do not compile are left out.
RECURSIVE CompileRoutes(_)
CompileRoutes(routes) ==
    IF routes = <<>> THEN <<>>
    ELSE LET c == CompileRoute(Head(routes), Head(routes).middlewares)
         IN  (IF c = None THEN <<>> ELSE <<Unwrap(c)>>) \o CompileRoutes(Tail(routes))

(***************************************************************************)
(* router: match, substitute, order                                        *)
(***************************************************************************)
\* The regex compile_wildcard_pattern builds, by what it matches: `*` is the lazy
\* group (.*?), `?` is (.), every other character is itself, the whole anchored.
\* The regex crate returns the match a backtracking search finds first: each
\* lazy group as short as the rest of the pattern allows.
RECURSIVE WildcardCaptures(_, _)
WildcardCaptures(pat, host) ==
    IF pat = <<>>
    THEN IF host = <<>> THEN Some(<<>>) ELSE None
    ELSE IF Head(pat) = "*"
    THEN LET fits == {k \in 0..Len(host) :
                         WildcardCaptures(Tail(pat), SubSeq(host, k + 1, Len(host))) # None}
         IN  IF fits = {} THEN None
             ELSE LET k == CHOOSE x \in fits : \A y \in fits : x <= y
                  IN  Some(<<SubSeq(host, 1, k)>> \o
                           Unwrap(WildcardCaptures(Tail(pat), SubSeq(host, k + 1, Len(host)))))
    ELSE IF host = <<>> THEN None
    ELSE IF Head(pat) = "?"
    THEN LET rest == WildcardCaptures(Tail(pat), Tail(host))
         IN  IF rest = None THEN None ELSE Some(<<<<Head(host)>>>> \o Unwrap(rest))
    ELSE IF Head(pat) = Head(host) THEN WildcardCaptures(Tail(pat), Tail(host))
    ELSE None

\* match_host: (matched, groups).
MatchHost(host, p) ==
    IF p.exact THEN [matched |-> host = p.pattern, groups |-> <<>>]
    ELSE LET caps == WildcardCaptures(p.pattern, host)
         IN  IF caps = None THEN [matched |-> FALSE, groups |-> <<>>]
             ELSE [matched |-> TRUE, groups |-> Unwrap(caps)]

DigitChars == <<"0", "1", "2", "3", "4", "5", "6", "7", "8", "9">>

\* format!("{i}")
RECURSIVE Decimal(_)
Decimal(i) ==
    IF i < 10 THEN <<DigitChars[i + 1]>>
    ELSE Decimal(i \div 10) \o <<DigitChars[(i % 10) + 1]>>

\* `for i in (1..=groups.len()).rev() { res = res.replace(&format!("${i}"), &groups[i - 1]) }`
RECURSIVE SubstituteFrom(_, _, _)
SubstituteFrom(res, groups, i) ==
    IF i = 0 THEN res
    ELSE SubstituteFrom(StrReplace(res, <<"$">> \o Decimal(i), groups[i]), groups, i - 1)

SubstituteParams(template, groups) ==
    IF template = <<>> \/ groups = <<>> THEN template
    ELSE SubstituteFrom(template, groups, Len(groups))

RotateRight(in_vec, start) ==
    LET n == Len(in_vec)
    IN  IF n = 0 \/ start % n = 0 THEN in_vec
        ELSE SubSeq(in_vec, n - (start % n) + 1, n) \o SubSeq(in_vec, 1, n - (start % n))

Rotate(in_vec, start) ==
    LET n == Len(in_vec)
    IN  IF n = 0 \/ start % n = 0 THEN in_vec
        ELSE SubSeq(in_vec, (start % n) + 1, n) \o SubSeq(in_vec, 1, start % n)

\* order_candidates, given what rr.fetch_add returned and what the generator drew.
OrderCandidates(strategy, fetched, drawn, candidates) ==
    IF Len(candidates) <= 1 THEN candidates
    ELSE IF strategy = "Random" THEN Rotate(candidates, drawn)
    ELSE IF strategy = "RoundRobin" THEN Rotate(candidates, fetched % Len(candidates))
    ELSE candidates

\* Whether order_candidates does rr.fetch_add(1).
AdvancesCounter(rt) == Len(rt.upstreams) > 1 /\ rt.strategy = "RoundRobin"

Resolution(host, upstreams, matched_host, captures, middleware, prelude_override) ==
    [host |-> host, upstreams |-> upstreams, matched_host |-> matched_host,
     captures |-> captures, middleware |-> middleware,
     prelude_override |-> prelude_override]

\* The loop over rt.patterns of resolve_route_for_host from pattern j on.
RECURSIVE ResolvePatternsFrom(_, _, _, _, _)
ResolvePatternsFrom(rt, host, j, fetched, drawn) ==
    IF j > Len(rt.patterns) THEN None
    ELSE LET m == MatchHost(host, rt.patterns[j])
         IN  IF ~m.matched THEN ResolvePatternsFrom(rt, host, j + 1, fetched, drawn)
             ELSE Some(Resolution(
                      host,
                      OrderCandidates(
                          rt.strategy, fetched, drawn,
                          [u \in 1..Len(rt.upstreams) |->
                              SubstituteParams(rt.upstreams[u], m.groups)]),
                      rt.patterns[j].pattern, m.groups, rt.middleware, None))

ResolveRouteForHost(rt, rawhost, fetched, drawn) ==
    LET host == ToAsciiLowercase(Trim(rawhost))
    IN  IF host = <<>> THEN None
        ELSE ResolvePatternsFrom(rt, host, 1, fetched, drawn)

(***************************************************************************)
(* router::Router                                                          *)
(***************************************************************************)
Resolvers == {"r1"}

\* The threads that call get on one provider.
ProviderThreads == {"g1", "g2"}

ResPending == [tag |-> "pending"]
ResNone == [tag |-> "none"]
ResNeedMoreData == [tag |-> "need"]
ResSome(res) == [tag |-> "some", res |-> res]

\* A resolve / resolve_prelude call: its arguments and locals (cr is the guard
\* compiled.load() returned, i the position of `for rt in &cr.routes`), and as
\* history the table current when it started, the tables it read, and how many
\* resolutions had matched its route before it did.
IdleCall ==
    [pc |-> "idle", kind |-> "none", prelude |-> <<>>, host |-> <<>>, cr |-> 0,
     i |-> 0, need_more |-> FALSE, result |-> ResPending,
     started_at |-> 0, reads |-> {}, k |-> 0]

\* A resolver that loads the pointer again whenever it touches the table.
CallTableReloaded(r) == compiled

\* The table a running call works on: the guard it loaded at its start.
CallTable(r) == rs[r].cr

\* A loop that forgets an earlier need-more-data at the next route.
NeedMoreOverwritten(need_more, parsed) == parsed = NeedMoreData

\* `Err(MiddlewareError::NeedMoreData) => need_more = true`, every other arm
\* leaves need_more alone.
NeedMoreAfter(need_more, parsed) == need_more \/ parsed = NeedMoreData

ZeroCounters(routes) == [j \in 1..Len(routes) |-> 0]

\* Router::update: compile, then one store of the new Arc.
RouterUpdate(routes) ==
    /\ Len(tables) < MaxUpdates + 1
    /\ LET out == CompileRoutes(routes)
       IN  /\ tables' = Append(tables, [routes |-> out])
           /\ rr' = Append(rr, ZeroCounters(out))
           /\ hits' = Append(hits, ZeroCounters(out))
           /\ compiled' = Len(tables) + 1
    /\ UNCHANGED <<rs, notRouterVars>>

\* The end of both loops: this route did not match.
RouteMissed(r, t, need_more) ==
    /\ rs' = [rs EXCEPT ![r] =
                 IF rs[r].i >= Len(tables[t].routes)
                 THEN [@ EXCEPT !.pc = "done", !.need_more = need_more,
                                !.reads = @ \cup {t},
                                !.result = IF need_more THEN ResNeedMoreData ELSE ResNone]
                 ELSE [@ EXCEPT !.i = @ + 1, !.need_more = need_more,
                                !.reads = @ \cup {t}]]
    /\ UNCHANGED <<rr, hits>>

\* `return Some(res)`, with the fetch_add order_candidates did on the way.
RouteMatched(r, t, res) ==
    LET i == rs[r].i
    IN  /\ hits[t][i] < MaxResolves
        /\ rs' = [rs EXCEPT ![r] = [@ EXCEPT !.pc = "done", !.result = ResSome(res),
                                            !.reads = @ \cup {t}, !.k = hits[t][i]]]
        /\ rr' = [rr EXCEPT ![t][i] = IF AdvancesCounter(tables[t].routes[i]) THEN @ + 1 ELSE @]
        /\ hits' = [hits EXCEPT ![t][i] =
                        IF tables[t].routes[i].strategy = "RoundRobin" THEN @ + 1 ELSE @]

\* What rng().random_range(0..candidates.len()) can draw for this route.
Draws(rt) == IF rt.strategy = "Random" THEN 0..(Len(rt.upstreams) - 1) ELSE {0}

\* resolve_prelude up to the loop.
ResolvePreludeBegin(r, prelude) ==
    /\ rs[r].pc \in {"idle", "done"}
    /\ rs' = [rs EXCEPT ![r] =
                 IF tables[compiled].routes = <<>>
                 THEN [IdleCall EXCEPT !.pc = "done", !.kind = "prelude", !.prelude = prelude,
                                       !.cr = compiled, !.result = ResNone,
                                       !.started_at = compiled, !.reads = {compiled}]
                 ELSE [IdleCall EXCEPT !.pc = "loop", !.kind = "prelude", !.prelude = prelude,
                                       !.cr = compiled, !.i = 1,
                                       !.started_at = compiled, !.reads = {compiled}]]
    /\ UNCHANGED <<compiled, tables, rr, hits, notRouterVars>>

\* One iteration of the loop of resolve_prelude, and the return after the last.
ResolvePreludeRoute(r) ==
    /\ rs[r].pc = "loop"
    /\ rs[r].kind = "prelude"
    /\ LET t == CallTable(r)
           routes == tables[t].routes
       IN  IF rs[r].i > Len(routes)
           THEN RouteMissed(r, t, rs[r].need_more)
           ELSE LET rt == routes[rs[r].i]
                    parsed == ChainParse(rt.middleware, rs[r].prelude)
                IN  \E drawn \in Draws(rt) :
                        LET res == IF parsed.ok
                                   THEN ResolveRouteForHost(rt, parsed.host, rr[t][rs[r].i], drawn)
                                   ELSE None
                        IN  IF res # None
                            THEN RouteMatched(r, t, [Unwrap(res) EXCEPT
                                     !.prelude_override = parsed.prelude_override])
                            ELSE RouteMissed(r, t, NeedMoreAfter(rs[r].need_more, parsed))
    /\ UNCHANGED <<compiled, tables, notRouterVars>>

\* resolve up to the loop.
ResolveBegin(r, rawhost) ==
    /\ rs[r].pc \in {"idle", "done"}
    /\ LET host == ToAsciiLowercase(Trim(rawhost))
       IN  rs' = [rs EXCEPT ![r] =
                 IF tables[compiled].routes = <<>> \/ host = <<>>
                 THEN [IdleCall EXCEPT !.pc = "done", !.kind = "host", !.host = host,
                                       !.cr = compiled, !.result = ResNone,
                                       !.started_at = compiled, !.reads = {compiled}]
                 ELSE [IdleCall EXCEPT !.pc = "loop", !.kind = "host", !.host = host,
                                       !.cr = compiled, !.i = 1,
                                       !.started_at = compiled, !.reads = {compiled}]]
    /\ UNCHANGED <<compiled, tables, rr, hits, notRouterVars>>

\* One iteration of the loop of resolve, and the return after the last.
ResolveRoute(r) ==
    /\ rs[r].pc = "loop"
    /\ rs[r].kind = "host"
    /\ LET t == CallTable(r)
           routes == tables[t].routes
       IN  IF rs[r].i > Len(routes)
           THEN RouteMissed(r, t, FALSE)
           ELSE LET rt == routes[rs[r].i]
                IN  \E drawn \in Draws(rt) :
                        LET res == ResolveRouteForHost(rt, rs[r].host, rr[t][rs[r].i], drawn)
                        IN  IF res # None
                            THEN RouteMatched(r, t, Unwrap(res))
                            ELSE RouteMissed(r, t, FALSE)
    /\ UNCHANGED <<compiled, tables, notRouterVars>>

\* Router::new(routes): an empty table, then update(routes).
RouterNew(routes) ==
    /\ compiled = 1
    /\ tables = <<[routes |-> CompileRoutes(routes)]>>
    /\ rr = <<ZeroCounters(CompileRoutes(routes))>>
    /\ hits = <<ZeroCounters(CompileRoutes(routes))>>
    /\ rs = [r \in Resolvers |-> IdleCall]

(***************************************************************************)
(* proxy::StatusCache                                                      *)
(***************************************************************************)
Requesters == {"q1", "q2"}

StatusCacheKey(upstream, protocol_version) ==
    [upstream |-> upstream, protocol_version |-> protocol_version]

StatusCacheItem(expires_at, data) == [expires_at |-> expires_at, data |-> data]

\* InFlight::new, with the number of notify_waiters calls its Notify has seen
\* and, as history, the clock at which it was made.
InFlightNew == [done |-> FALSE, notify_calls |-> 0, result |-> None, born |-> clock]

LoadOk(data) == [ok |-> TRUE, data |-> data]
LoadErr == [ok |-> FALSE, data |-> <<>>]

\* A status request: the handler's position and locals, and as history the
\* clock when it began, whether the cache then held an unexpired entry for its
\* key, whether it invoked the loader, the requests it ran alongside, and, when
\* one of its cache.get calls removed an expired entry whose load had returned,
\* the expiry of that entry.
IdleRequest ==
    [pc |-> "idle", key |-> StatusCacheKey(<<>>, 0), ttl |-> 0, flight |-> 0,
     seen |-> 0, out |-> None, result |-> None,
     began |-> 0, cold |-> FALSE, loaded |-> FALSE, peers |-> {}, evicted_at |-> None]

InProgress(q) == cs[q].pc \notin {"idle", "done"}

Unexpired(key) ==
    /\ key \in DOMAIN items
    /\ clock < items[key].expires_at
    /\ items[key].data # <<>>

\* try_handle_minecraft_status_cached up to its first cache.get: with no
\* positive TTL the request is not served from the cache at all.
StatusRequest(q, key, ttl) ==
    /\ cs[q].pc \in {"idle", "done"}
    /\ cs' = [p \in Requesters |->
                 IF p = q
                 THEN IF ttl <= 0
                      THEN [IdleRequest EXCEPT !.pc = "done", !.key = key, !.ttl = ttl,
                                               !.began = clock]
                      ELSE [IdleRequest EXCEPT !.pc = "handler_get", !.key = key, !.ttl = ttl,
                                               !.began = clock, !.cold = ~Unexpired(key),
                                               !.peers = {o \in Requesters \ {q} : InProgress(o)}]
                 ELSE IF InProgress(p) /\ ttl > 0
                      THEN [cs[p] EXCEPT !.peers = @ \cup {q}]
                      ELSE [cs[p] EXCEPT !.peers = @ \ {q}]]
    /\ UNCHANGED <<items, inflight, flights, clock, notCacheVars>>

\* StatusCache::get under the items lock: (what it returns, what it leaves).
StatusCacheGet(key) ==
    IF key \notin DOMAIN items THEN [hit |-> None, items |-> items]
    ELSE IF clock >= items[key].expires_at \/ items[key].data = <<>>
    THEN [hit |-> None, items |-> MapDel(items, key)]
    ELSE [hit |-> Some(items[key].data), items |-> items]

\* StatusCache::set under the items lock.
StatusCacheSet(key, data, ttl) ==
    IF ttl <= 0 \/ data = <<>> THEN items
    ELSE MapPut(items, key, StatusCacheItem(clock + ttl, data))

\* Every load that stored an entry for the key has returned to its caller.
LoadReturned(key) ==
    \A p \in Requesters :
        ~(/\ cs[p].key = key
          /\ cs[p].pc \in {"publish", "finish", "remove"}
          /\ cs[p].out # None
          /\ Unwrap(cs[p].out).ok)

\* History: what a get that returned `got` adds to the request's evicted_at.
EvictedAt(q, got) ==
    IF cs[q].key \in DOMAIN items /\ cs[q].key \notin DOMAIN got.items /\ LoadReturned(cs[q].key)
    THEN Some(items[cs[q].key].expires_at)
    ELSE cs[q].evicted_at

\* `if let Some(resp) = cache.get(&key).await` of the handler.
HandlerGet(q) ==
    /\ cs[q].pc = "handler_get"
    /\ LET got == StatusCacheGet(cs[q].key)
       IN  /\ items' = got.items
           /\ cs' = [cs EXCEPT ![q] =
                        IF got.hit # None
                        THEN [@ EXCEPT !.pc = "done", !.result = Some(LoadOk(Unwrap(got.hit)))]
                        ELSE [@ EXCEPT !.pc = "get", !.evicted_at = EvictedAt(q, got)]]
    /\ UNCHANGED <<inflight, flights, clock, notCacheVars>>

\* `if let Some(v) = self.get(&key).await` of get_or_load.
GetOrLoadGet(q) ==
    /\ cs[q].pc = "get"
    /\ LET got == StatusCacheGet(cs[q].key)
       IN  /\ items' = got.items
           /\ cs' = [cs EXCEPT ![q] =
                        IF got.hit # None
                        THEN [@ EXCEPT !.pc = "done", !.result = Some(LoadOk(Unwrap(got.hit)))]
                        ELSE [@ EXCEPT !.pc = "join", !.evicted_at = EvictedAt(q, got)]]
    /\ UNCHANGED <<inflight, flights, clock, notCacheVars>>

\* The block under the inflight lock: join the flight of the key or create one.
JoinOrCreate(q) ==
    /\ cs[q].pc = "join"
    /\ IF cs[q].key \in DOMAIN inflight
       THEN /\ cs' = [cs EXCEPT ![q] = [@ EXCEPT !.pc = "is_done",
                                                  !.flight = inflight[cs[q].key]]]
            /\ UNCHANGED <<inflight, flights>>
       ELSE /\ Len(flights) < MaxFlights
            /\ flights' = Append(flights, InFlightNew)
            /\ inflight' = MapPut(inflight, cs[q].key, Len(flights) + 1)
            /\ cs' = [cs EXCEPT ![q] = [@ EXCEPT !.pc = "load", !.flight = Len(flights) + 1]]
    /\ UNCHANGED <<items, clock, notCacheVars>>

\* A waiter: `if !flight.is_done()`.
WaiterIsDone(q) ==
    /\ cs[q].pc = "is_done"
    /\ cs' = [cs EXCEPT ![q] = [@ EXCEPT !.pc =
                 IF flights[cs[q].flight].done THEN "read_result" ELSE "notified"]]
    /\ UNCHANGED <<items, inflight, flights, clock, notCacheVars>>

\* A waiter: flight.notify.notified() makes the future, which from now on
\* receives notify_waiters calls.
WaiterNotified(q) ==
    /\ cs[q].pc = "notified"
    /\ cs' = [cs EXCEPT ![q] = [@ EXCEPT !.pc = "await",
                                          !.seen = flights[cs[q].flight].notify_calls]]
    /\ UNCHANGED <<items, inflight, flights, clock, notCacheVars>>

\* A waiter: the future completes once notify_waiters ran after it was made.
WaiterWoken(q) ==
    /\ cs[q].pc = "await"
    /\ flights[cs[q].flight].notify_calls > cs[q].seen
    /\ cs' = [cs EXCEPT ![q] = [@ EXCEPT !.pc = "read_result"]]
    /\ UNCHANGED <<items, inflight, flights, clock, notCacheVars>>

\* `out.clone().unwrap_or_else(|| Err(..))`: the published result, an error
\* when there is none.
ResultAlwaysMissing(slot) == Some(LoadErr)
ResultOrMissing(slot) == IF slot = None THEN Some(LoadErr) ELSE slot

\* A waiter: takes the published result.
WaiterReadResult(q) ==
    /\ cs[q].pc = "read_result"
    /\ cs' = [cs EXCEPT ![q] = [@ EXCEPT !.pc = "done",
                  !.result = ResultOrMissing(flights[cs[q].flight].result)]]
    /\ UNCHANGED <<items, inflight, flights, clock, notCacheVars>>

\* The loader: load().await returned, the upstream answering `response`.
LoaderLoad(q, response) ==
    /\ cs[q].pc = "load"
    /\ cs' = [cs EXCEPT ![q] = [@ EXCEPT !.pc = IF response.ok THEN "set" ELSE "publish",
                                          !.out = Some(response), !.loaded = TRUE]]
    /\ UNCHANGED <<items, inflight, flights, clock, notCacheVars>>

\* The loader: self.set(key, data, ttl).
LoaderSet(q) ==
    /\ cs[q].pc = "set"
    /\ items' = StatusCacheSet(cs[q].key, Unwrap(cs[q].out).data, cs[q].ttl)
    /\ cs' = [cs EXCEPT ![q] = [@ EXCEPT !.pc = "publish"]]
    /\ UNCHANGED <<inflight, flights, clock, notCacheVars>>

\* The loader: `*slot = Some(out...)`.
LoaderPublish(q) ==
    /\ cs[q].pc = "publish"
    /\ flights' = [flights EXCEPT ![cs[q].flight] = [@ EXCEPT !.result = cs[q].out]]
    /\ cs' = [cs EXCEPT ![q] = [@ EXCEPT !.pc = "finish"]]
    /\ UNCHANGED <<items, inflight, clock, notCacheVars>>

\* The loader: InFlight::finish. A waiter that runs between the store and the
\* notify_waiters call sees what it would see right after both.
LoaderFinish(q) ==
    /\ cs[q].pc = "finish"
    /\ flights' = [flights EXCEPT ![cs[q].flight] =
                      [@ EXCEPT !.done = TRUE, !.notify_calls = @ + 1]]
    /\ cs' = [cs EXCEPT ![q] = [@ EXCEPT !.pc = "remove"]]
    /\ UNCHANGED <<items, inflight, clock, notCacheVars>>

\* The loader: self.inflight.lock().await.remove(&key), then `out`.
LoaderRemove(q) ==
    /\ cs[q].pc = "remove"
    /\ inflight' = MapDel(inflight, cs[q].key)
    /\ cs' = [cs EXCEPT ![q] = [@ EXCEPT !.pc = "done", !.result = cs[q].out]]
    /\ UNCHANGED <<items, flights, clock, notCacheVars>>

ClockTick ==
    /\ clock < MaxClock
    /\ clock' = clock + 1
    /\ UNCHANGED <<items, inflight, flights, cs, notCacheVars>>

\* StatusCache::new, and no request yet.
StatusCacheNew ==
    /\ items = EmptyMap
    /\ inflight = EmptyMap
    /\ flights = <<>>
    /\ clock = 0
    /\ cs = [q \in Requesters |-> IdleRequest]

(***************************************************************************)
(* tunnel::autolisten::AutoListener                                        *)
(***************************************************************************)
ServiceSnapshot(service, client_id, is_primary) ==
    [service |-> service, client_id |-> client_id, primary |-> is_primary]

\* Manager::snapshot_services: one entry per (client, service), in the order the
\* two HashMaps iterate, which nothing below depends on.
SnapshotServices(cl, pr) ==
    UNION { { ServiceSnapshot(cl[cid].services[n], cid, n \in DOMAIN pr /\ pr[n] = cid) :
                n \in DOMAIN cl[cid].services } :
            cid \in DOMAIN cl }

DesiredSvc(client_id, name, proto, addr) ==
    [client_id |-> client_id, name |-> name, proto |-> proto, addr |-> addr]

RunningListener(desired, task) == [desired |-> desired, task |-> task]

\* format!("{cid}/{name}")
ListenerKey(cid, name) == cid \o <<"/">> \o name

\* The body of `for s in snaps`: the (key, DesiredSvc) it inserts, None when it
\* skips the entry.
DesiredOf(s) ==
    LET name == Trim(s.service.name)
        cid == Trim(s.client_id)
        proto0 == ToAsciiLowercase(Trim(s.service.proto))
        proto == IF proto0 = <<>> THEN <<"t", "c", "p">> ELSE proto0
        remote == Trim(s.service.remote_addr)
    IN  IF name = <<>> \/ s.service.route_only \/ cid = <<>> \/ remote = <<>>
        THEN None
        ELSE Some([key |-> ListenerKey(cid, name),
                   svc |-> DesiredSvc(cid, name, proto, remote)])

\* The `desired` maps the loop can build: were two entries to share a key, the
\* one inserted last would stay, whichever the iteration order makes last.
DesiredMaps(snaps) ==
    LET entries == {Unwrap(DesiredOf(s)) : s \in {x \in snaps : DesiredOf(x) # None}}
        keys == {e.key : e \in entries}
    IN  {f \in [keys -> {e.svc : e \in entries}] :
            \A k \in keys : \E e \in entries : e.key = k /\ e.svc = f[k]}

\* A reconcile that restarts every listener.
ShouldKeepNever(want, cur) == FALSE

\* A comparison that overlooks the protocol.
ShouldKeepIgnoringProto(want, cur) ==
    /\ want # None
    /\ Unwrap(want).client_id = cur.desired.client_id
    /\ Unwrap(want).name = cur.desired.name
    /\ Unwrap(want).addr = cur.desired.addr

\* `should_keep`, with want = desired.get(&key) and cur the running listener.
ShouldKeep(want, cur) ==
    /\ want # None
    /\ Unwrap(want).client_id = cur.desired.client_id
    /\ Unwrap(want).name = cur.desired.name
    /\ Unwrap(want).proto = cur.desired.proto
    /\ Unwrap(want).addr = cur.desired.addr

\* The JoinHandle of the task a reconcile run spawns for a key.
ListenerTask(run, key) == [run |-> run, key |-> key]

\* reconcile up to `self.running.lock().await`.
ReconcileSnapshotCall ==
    /\ au.pc = "idle"
    /\ au' = [au EXCEPT !.pc = "lock", !.snaps = SnapshotServices(clients, primary)]
    /\ UNCHANGED <<running, spawned, stopped>>

ReconcileSnapshot ==
    /\ ReconcileSnapshotCall
    /\ UNCHANGED <<mgrVars, notAutoVars>>

\* reconcile under the running lock: stop removed or changed, start new.
ReconcileApplyCall ==
    /\ au.pc = "lock"
    /\ \E desired \in DesiredMaps(au.snaps) :
          LET kept == {k \in DOMAIN running :
                          ShouldKeep(IF k \in DOMAIN desired THEN Some(desired[k]) ELSE None,
                                     running[k])}
              start == DOMAIN desired \ kept
          IN  /\ start # {} => spawned < MaxSpawns
              /\ running' = [k \in kept \cup start |->
                                IF k \in kept THEN running[k]
                                ELSE RunningListener(desired[k], ListenerTask(spawned + 1, k))]
              /\ spawned' = IF start # {} THEN spawned + 1 ELSE spawned
              /\ stopped' = {running[k].task : k \in DOMAIN running \ kept}
              /\ au' = [pc |-> "idle", snaps |-> {}, prev |-> Some(au.snaps),
                        repeat |-> (au.prev = Some(au.snaps))]

ReconcileApply ==
    /\ ReconcileApplyCall
    /\ UNCHANGED <<mgrVars, notAutoVars>>

\* The run loop and its receiver `sub` of the manager's watch channel:
\* unseen is whether the channel's version is past the one `sub` has seen.
\* As history: mutations counts the register and unregister calls that have
\* changed the state, pending those of them that have not reached
\* bump_changed yet, completed is the latest mutation a returned call can have
\* made, observing the latest one the reconcile in progress has in its
\* snapshot, observed the same of the last reconcile that returned, and
\* overlapped whether a mutation fell between a reconcile's snapshot and its
\* return.
AutoRun(pc, subscribed) ==
    [pc |-> pc, subscribed |-> subscribed, unseen |-> FALSE, mutations |-> 0,
     pending |-> 0, completed |-> 0, observing |-> 0, observed |-> 0,
     overlapped |-> FALSE]

AutoRunIdle == wch = AutoRun("none", FALSE)

\* bump_changed: `self.changed.send(prev.wrapping_add(1))`.  A send moves the
\* channel's version on whatever the value is, and does nothing when no
\* receiver exists.
BumpChanged(w) == IF w.subscribed THEN [w EXCEPT !.unseen = TRUE] ELSE w

\* The state changed under the write lock and the lock was dropped.
Mutated(w) ==
    [w EXCEPT !.mutations = @ + 1, !.pending = @ + 1,
              !.overlapped = @ \/ (w.pc = "reconcile" /\ au.pc = "lock")]

\* A loop that marks the channel seen when its reconcile is over.
ReconciledMarksSeen(w) ==
    [w EXCEPT !.pc = "wait", !.observed = w.observing, !.unseen = FALSE]

\* reconcile returned: back to the select!; `sub` is as changed() left it.
Reconciled(w) == [w EXCEPT !.pc = "wait", !.observed = w.observing]

\* register_client next to the run loop, up to `drop(st)`.  Every reconcile
\* that starts a listener follows a mutation, so MaxSpawns mutations keep the
\* spawn count within its bound.
WatchedRegister(id, services, started) ==
    /\ wch.mutations < MaxSpawns
    /\ RegisterClientLocked(id, services, started)
    /\ wch' = Mutated(wch)
    /\ UNCHANGED <<now, autoVars, notMgrRunVars>>

\* unregister_client of a registered client, up to `drop(st)`.
WatchedUnregister(rawid) ==
    /\ wch.mutations < MaxSpawns
    /\ UnregisterClientLocked(rawid)
    /\ wch' = Mutated(wch)
    /\ UNCHANGED <<now, autoVars, notMgrRunVars>>

\* `self.bump_changed()` of a call that dropped the lock, and its return.
WatchedBump ==
    /\ wch.pending > 0
    /\ wch' = [BumpChanged(wch) EXCEPT !.pending = @ - 1, !.completed = wch.mutations]
    /\ UNCHANGED <<autoVars, mgrVars, notAutoRunVars>>

\* `let mut sub = self.mgr.subscribe()`: the receiver starts with the current
\* version seen.
AutoRunSubscribe ==
    /\ wch.pc = "start"
    /\ wch' = [wch EXCEPT !.pc = "reconcile", !.subscribed = TRUE, !.unseen = FALSE]
    /\ UNCHANGED <<autoVars, mgrVars, notAutoRunVars>>

\* `self.reconcile().await`, its snapshot.
AutoRunSnapshot ==
    /\ wch.pc = "reconcile"
    /\ ReconcileSnapshotCall
    /\ wch' = [wch EXCEPT !.observing = wch.mutations]
    /\ UNCHANGED <<mgrVars, notAutoRunVars>>

\* `self.reconcile().await`, from the running lock to its return.
AutoRunApply ==
    /\ wch.pc = "reconcile"
    /\ ReconcileApplyCall
    /\ wch' = Reconciled(wch)
    /\ UNCHANGED <<mgrVars, notAutoRunVars>>

\* `_ = sub.changed() => { self.reconcile().await }`: changed() returns once
\* the version is past the seen one, and marks it seen.
AutoRunChanged ==
    /\ wch.pc = "wait"
    /\ wch.unseen
    /\ wch' = [wch EXCEPT !.pc = "reconcile", !.unseen = FALSE]
    /\ UNCHANGED <<autoVars, mgrVars, notAutoRunVars>>

\* AutoListener::new; `prev` is the snapshot of the last finished reconcile and
\* `repeat` whether that reconcile saw what the one before it saw.
AutoListenerNew ==
    /\ running = EmptyMap
    /\ spawned = 0
    /\ stopped = {}
    /\ au = [pc |-> "idle", snaps |-> {}, prev |-> None, repeat |-> FALSE]

(***************************************************************************)
(* proxy::handle_routing and proxy::dial_upstream                          *)
(***************************************************************************)
DefaultMaxHeader == 65536

Min(a, b) == IF a < b THEN a ELSE b

\* `let max_header = if rt.max_header_bytes == 0 { 64 * 1024 } else { .. }`
MaxHeader(rt) == IF rt.max_header_bytes = 0 THEN DefaultMaxHeader ELSE rt.max_header_bytes

Str_tunnel == <<"t", "u", "n", "n", "e", "l", ":">>

\* The header write_proxy_proto_v2 puts in front of the prelude, as one unit.
PP2Header == <<"PP2">>

\* The port `default_port` holds when the prelude carries none: the listener's.
DefaultPort == <<"7">>

StripPrefix(s, pre) ==
    IF Len(s) >= Len(pre) /\ SubSeq(s, 1, Len(pre)) = pre
    THEN Some(SubSeq(s, Len(pre) + 1, Len(s))) ELSE None

\* upstream_needs_port: no ':' after the last ']'.
UpstreamNeedsPort(addr) ==
    LET s == Trim(addr)
        closings == {i \in 1..Len(s) : s[i] = "]"}
        pos == IF closings = {} THEN 0 ELSE CHOOSE i \in closings : \A j \in closings : j <= i
    IN  s # <<>> /\ ~Contains(SubSeq(s, pos + 1, Len(s)), ":")

DialOk(label) == [ok |-> TRUE, label |-> label]
DialErr == [ok |-> FALSE, label |-> <<>>]

\* Manager::dial_service_tcp: the lookups under the read lock, then open_stream
\* and the stream header, which succeed or not (`opened`).
DialServiceTcp(service, opened) ==
    LET svc == Trim(service)
    IN  /\ svc # <<>>
        /\ svc \in DOMAIN primary
        /\ primary[svc] \in DOMAIN clients
        /\ svc \in DOMAIN clients[primary[svc]].services
        /\ opened

\* dial_upstream with a tunnel manager configured; `connected` is whether the
\* peer (TCP connect within the timeout, or the tunnel client) accepts.
DialUpstream(upstream, default_port, connected) ==
    LET addr == Trim(upstream)
        rest == StripPrefix(addr, Str_tunnel)
    IN  IF addr = <<>> THEN DialErr
        ELSE IF rest # None
        THEN LET service == Trim(Unwrap(rest))
             IN  IF service = <<>> THEN DialErr
                 ELSE IF DialServiceTcp(service, connected)
                 THEN DialOk(Str_tunnel \o service)
                 ELSE DialErr
        ELSE LET full == IF UpstreamNeedsPort(addr)
                         THEN addr \o <<":">> \o default_port ELSE addr
             IN  IF connected THEN DialOk(full) ELSE DialErr

\* Router::resolve_prelude as the one call the handler makes: the answer and,
\* for a match, the position of the route that matched.
RouteOutcome(rt, parsed, fetched, drawn) ==
    IF parsed.ok THEN ResolveRouteForHost(rt, parsed.host, fetched, drawn) ELSE None

RECURSIVE ResolvePreludeFrom(_, _, _, _, _, _)
\* The arms of `match rt.middleware.parse(prelude)` for route i.
ResolvePreludeArm(routes, counters, i, prelude, need_more, drawn, parsed, res) ==
    IF res # None
    THEN [answer |-> ResSome([Unwrap(res) EXCEPT
                                 !.prelude_override = parsed.prelude_override]),
          route |-> i]
    ELSE ResolvePreludeFrom(routes, counters, i + 1, prelude,
                            NeedMoreAfter(need_more, parsed), drawn)

ResolvePreludeParsed(routes, counters, i, prelude, need_more, drawn, parsed) ==
    ResolvePreludeArm(routes, counters, i, prelude, need_more, drawn, parsed,
                      RouteOutcome(routes[i], parsed, counters[i], drawn))

ResolvePreludeFrom(routes, counters, i, prelude, need_more, drawn) ==
    IF i > Len(routes)
    THEN [answer |-> IF need_more THEN ResNeedMoreData ELSE ResNone, route |-> 0]
    ELSE ResolvePreludeParsed(routes, counters, i, prelude, need_more, drawn,
                              ChainParse(routes[i].middleware, prelude))

ResolvePrelude(prelude, drawn) ==
    IF tables[compiled].routes = <<>>
    THEN [answer |-> ResNone, route |-> 0]
    ELSE ResolvePreludeFrom(tables[compiled].routes, rr[compiled], 1, prelude, FALSE, drawn)

\* RuntimeConfig as far as the handler reads it.
RoutingRuntime(max_header_bytes, proxy_protocol_v2) ==
    [max_header_bytes |-> max_header_bytes, proxy_protocol_v2 |-> proxy_protocol_v2]

\* The locals of handle_routing at its start, and as history every byte
\* conn.read returned (`consumed`), the number of reads that returned data, the
\* buffers the router was asked about, and the candidates dialed with their
\* outcome. `next` is the position of `for cand in &res.upstreams`.
HandlerStart(rt) ==
    [pc |-> "read", rt |-> rt, captured |-> <<>>, res |-> None, next |-> 0,
     upstream_used |-> None, written |-> <<>>, shutdown |-> FALSE, session |-> FALSE,
     consumed |-> <<>>, reads |-> 0, asked |-> <<>>, dialed |-> <<>>]

\* `let _ = conn.shutdown().await; return;`
HandlerClose(h) == [h EXCEPT !.pc = "closed", !.shutdown = TRUE, !.session = FALSE]

\* `let need = (max_header - captured.len()).min(n); ..extend_from_slice(&tmp[..need])`
KeptOfChunk(space, chunk) == SubSeq(chunk, 1, Min(space, Len(chunk)))

\* `match opts.router.resolve_prelude(&captured)` and, on a Resolution, the way
\* to the dial loop (the route carries no cache_ping_ttl, so the status cache
\* leaves captured alone); h is the handler after the read.
RoutingAnswer(h, r) ==
    IF r.answer.tag = "some"
    THEN /\ hr' = IF ToAsciiLowercase(Trim(r.answer.res.host)) = <<>>
                  THEN HandlerClose(h)
                  ELSE [h EXCEPT !.pc = "dial", !.res = Some(r.answer.res), !.next = 1]
         /\ rr' = [rr EXCEPT ![compiled][r.route] =
                      IF AdvancesCounter(tables[compiled].routes[r.route])
                      THEN @ + 1 ELSE @]
    ELSE /\ hr' = IF r.answer.tag = "need" THEN h ELSE HandlerClose(h)
         /\ rr' = rr

RoutingAsk(chunk, captured, drawn) ==
    RoutingAnswer([hr EXCEPT !.captured = captured, !.consumed = @ \o chunk,
                             !.reads = @ + 1, !.asked = Append(@, captured)],
                  ResolvePrelude(captured, drawn))

RoutingExtend(chunk, drawn) ==
    RoutingAsk(chunk,
               hr.captured \o KeptOfChunk(MaxHeader(hr.rt) - Len(hr.captured), chunk),
               drawn)

\* One turn of the capture loop with a read that returns n >= 1 bytes: extend
\* captured, ask the router, act on the answer.
RoutingRead(n, drawn) ==
    /\ hr.pc = "read"
    /\ Len(hr.captured) < MaxHeader(hr.rt)
    /\ n \in 1..Min(MaxRead, Len(cli.pending))
    /\ cli' = [cli EXCEPT !.pending = SubSeq(@, n + 1, Len(@))]
    /\ RoutingExtend(SubSeq(cli.pending, 1, n), drawn)
    /\ UNCHANGED <<compiled, tables, hits, rs, mgrVars, notRoutingVars>>

\* `if captured.len() >= max_header { break Ok(None) }`
RoutingOverflow ==
    /\ hr.pc = "read"
    /\ Len(hr.captured) >= MaxHeader(hr.rt)
    /\ hr' = HandlerClose(hr)
    /\ UNCHANGED <<cli, routerVars, mgrVars, notRoutingVars>>

\* `if n == 0 { break Ok(None) }`: the client closed before a route matched.
RoutingEof ==
    /\ hr.pc = "read"
    /\ Len(hr.captured) < MaxHeader(hr.rt)
    /\ cli.pending = <<>>
    /\ cli.fin
    /\ hr' = HandlerClose(hr)
    /\ UNCHANGED <<cli, routerVars, mgrVars, notRoutingVars>>

\* A read that fails, or the handshake watchdog firing while the loop waits.
RoutingAbort ==
    /\ hr.pc = "read"
    /\ Len(hr.captured) < MaxHeader(hr.rt)
    /\ hr' = HandlerClose(hr)
    /\ UNCHANGED <<cli, routerVars, mgrVars, notRoutingVars>>

\* The client shuts down its sending side.
ClientFin ==
    /\ ~cli.fin
    /\ cli' = [cli EXCEPT !.fin = TRUE]
    /\ UNCHANGED <<hr, routerVars, mgrVars, notRoutingVars>>

\* A dial loop that carries on after a successful dial and keeps the last.
DialLoopEndsNever(ok, next, len) == next >= len

\* `Ok(..) => { ..; break }`, or the candidates ran out.
DialLoopEnds(ok, next, len) == ok \/ next >= len

\* One turn of `for cand in &res.upstreams`, with what follows the loop when it
\* ends here: close without an upstream, or sessions.add.
RoutingDial(connected) ==
    /\ hr.pc = "dial"
    /\ LET upstreams == Unwrap(hr.res).upstreams
           cand == upstreams[hr.next]
           out == DialUpstream(Trim(cand), DefaultPort, connected)
           used == IF out.ok THEN Some(out.label) ELSE hr.upstream_used
           h == [hr EXCEPT !.dialed = Append(@, [cand |-> cand, ok |-> out.ok]),
                           !.upstream_used = used]
       IN  hr' = IF ~DialLoopEnds(out.ok, hr.next, Len(upstreams))
                 THEN [h EXCEPT !.next = @ + 1]
                 ELSE IF used = None THEN HandlerClose(h)
                 ELSE [h EXCEPT !.pc = "forward", !.session = TRUE]
    /\ UNCHANGED <<cli, routerVars, mgrVars, notRoutingVars>>

\* The PROXY header when enabled, then write_all(&captured); a failing write_all
\* has put k < len bytes on the wire.
RoutingForward(header_ok, k) ==
    /\ hr.pc = "forward"
    /\ k \in 0..Len(hr.captured)
    /\ hr' = IF hr.rt.proxy_protocol_v2 /\ ~header_ok
             THEN HandlerClose(hr)
             ELSE LET w == (IF hr.rt.proxy_protocol_v2 THEN PP2Header ELSE <<>>)
                           \o SubSeq(hr.captured, 1, k)
                  IN  IF k < Len(hr.captured)
                      THEN [HandlerClose(hr) EXCEPT !.written = w]
                      ELSE [hr EXCEPT !.pc = "splice", !.written = w]
    /\ UNCHANGED <<cli, routerVars, mgrVars, notRoutingVars>>

\* proxy_bidirectional returned; sessions.remove.
RoutingSpliceEnd ==
    /\ hr.pc = "splice"
    /\ hr' = [hr EXCEPT !.pc = "closed", !.session = FALSE]
    /\ UNCHANGED <<cli, routerVars, mgrVars, notRoutingVars>>

\* No connection accepted.
RoutingIdle ==
    /\ cli = [pending |-> <<>>, fin |-> FALSE]
    /\ hr = [HandlerStart(RoutingRuntime(0, FALSE)) EXCEPT !.pc = "closed"]

(***************************************************************************)
(* tunnel::datagram::DatagramConn                                          *)
(***************************************************************************)
\* write_u32 / read_u32: four bytes, big-endian.
U32Be(n) ==
    << (n \div 16777216) % 256, (n \div 65536) % 256, (n \div 256) % 256, n % 256 >>

FromU32Be(b) == b[1] * 16777216 + b[2] * 65536 + b[3] * 256 + b[4]

\* A writer that frames whatever it is given.
TooLargeNever(n) == FALSE

\* `if n > MAX_DATAGRAM_BYTES { return Err(PayloadTooLarge(n)) }`
TooLarge(n) == n > MAX_DATAGRAM_BYTES

\* write_datagram: whether the payload was accepted and the bytes put on the
\* stream (the length of every payload here fits a u32, so try_into succeeds).
WriteDatagram(payload) ==
    IF TooLarge(Len(payload))
    THEN [ok |-> FALSE, bytes |-> <<>>]
    ELSE [ok |-> TRUE, bytes |-> U32Be(Len(payload)) \o payload]

\* A reader that reports a short buffer without draining the frame.
DrainNothing(n) == 0

\* `let mut drain = vec![0u8; n]; self.inner.read_exact(&mut drain)`
Drain(n) == n

\* What read_datagram takes from the stream for a frame of announced length n.
Consumed(n, out_len) ==
    IF n > MAX_DATAGRAM_BYTES THEN 4
    ELSE IF n > out_len THEN 4 + Drain(n)
    ELSE 4 + n

\* read_u32 and read_exact have what they wait for.
FrameReady(wire, out_len) ==
    /\ Len(wire) >= 4
    /\ Len(wire) >= Consumed(FromU32Be(SubSeq(wire, 1, 4)), out_len)

\* read_datagram into a buffer of out_len bytes: Ok(n) with out[..n], or an error.
ReadDatagram(wire, out_len) ==
    LET n == FromU32Be(SubSeq(wire, 1, 4))
    IN  IF n > MAX_DATAGRAM_BYTES THEN [tag |-> "too_large", data |-> <<>>]
        ELSE IF n > out_len THEN [tag |-> "short", data |-> <<>>]
        ELSE [tag |-> "ok", data |-> SubSeq(wire, 5, 4 + n)]

\* A write_datagram call on the sending end of the stream.
DgWrite(payload) ==
    /\ Len(dgWrites) < MaxFrames
    /\ dgWire' = dgWire \o WriteDatagram(payload).bytes
    /\ dgWrites' = Append(dgWrites, [payload |-> payload, ok |-> WriteDatagram(payload).ok])
    /\ UNCHANGED <<dgReads, notDgVars>>

\* A read_datagram call on the receiving end, once its reads can complete.
DgRead(out_len) ==
    /\ FrameReady(dgWire, out_len)
    /\ dgWire' = SubSeq(dgWire, Consumed(FromU32Be(SubSeq(dgWire, 1, 4)), out_len) + 1,
                        Len(dgWire))
    /\ dgReads' = Append(dgReads, ReadDatagram(dgWire, out_len))
    /\ UNCHANGED <<dgWrites, notDgVars>>

\* DatagramConn::new on both ends of a fresh stream.
DatagramConnNew ==
    /\ dgWire = <<>>
    /\ dgWrites = <<>>
    /\ dgReads = <<>>

(***************************************************************************)
(* proxy::udp_session_loop with a `tunnel:` upstream: the select! between  *)
(* rx.recv() and up.read_datagram(&mut buf).                               *)
(***************************************************************************)
\* wire: bytes the tunnel peer wrote that no read has taken yet; frames: the
\* payloads it wrote; fut: the bytes the pending read_datagram future has
\* taken (inside read_u32's and read_exact's own buffers and counters);
\* delivered: the datagrams sent to the source peer; rx: the channel.
TunnelLoop(pc) ==
    [pc |-> pc, wire |-> <<>>, frames |-> <<>>, fut |-> <<>>, delivered |-> <<>>,
     rx |-> <<>>, inbound |-> 0, upstream |-> <<>>, err |-> "none"]

TunnelLoopIdle == tu = TunnelLoop("none")

\* The bytes a read_datagram future that has taken `fut` still waits for.
FutureNeeds(fut) ==
    IF Len(fut) < 4 THEN 4 - Len(fut)
    ELSE LET n == FromU32Be(SubSeq(fut, 1, 4))
         IN  IF TooLarge(n) THEN 0 ELSE 4 + n - Len(fut)

\* select! drops the futures of the branches that did not complete; a new
\* read_datagram future starts at read_u32 with nothing taken.
FutureDropped(fut) == <<>>

\* The tunnel peer's write_datagram reaches the substream.
TunPeerWrite(payload) ==
    /\ tu.pc = "select"
    /\ Len(tu.frames) < MaxFrames
    /\ WriteDatagram(payload).ok
    /\ tu' = [tu EXCEPT !.wire = @ \o WriteDatagram(payload).bytes,
                        !.frames = Append(@, payload)]
    /\ UNCHANGED notTunVars

\* The acceptor's try_send of a datagram of the source peer.
TunInbound(payload) ==
    /\ tu.pc = "select"
    /\ tu.inbound < MaxInbound
    /\ Len(tu.rx) < SessionQueueCapacity
    /\ tu' = [tu EXCEPT !.rx = Append(@, payload), !.inbound = @ + 1]
    /\ UNCHANGED notTunVars

\* The read_datagram future is polled and takes the k bytes the substream has
\* for it.  With the frame complete the branch runs: the payload goes to the
\* source peer and the loop starts over; a length above the limit ends the
\* loop with an error.
TunPollRead(k) ==
    /\ tu.pc = "select"
    /\ k >= 1
    /\ k <= Len(tu.wire)
    /\ k <= FutureNeeds(tu.fut)
    /\ LET fut == tu.fut \o SubSeq(tu.wire, 1, k)
           rest == SubSeq(tu.wire, k + 1, Len(tu.wire))
       IN  tu' = IF FutureNeeds(fut) > 0
                 THEN [tu EXCEPT !.wire = rest, !.fut = fut]
                 ELSE IF TooLarge(FromU32Be(SubSeq(fut, 1, 4)))
                 THEN [tu EXCEPT !.wire = rest, !.fut = <<>>, !.pc = "ended",
                                 !.err = "tunnel udp read failed"]
                 ELSE [tu EXCEPT !.wire = rest, !.fut = <<>>,
                                 !.delivered = Append(@, SubSeq(fut, 5, Len(fut)))]
    /\ UNCHANGED notTunVars

\* `Some(payload) = rx.recv()` completes first: the read future is dropped
\* and the payload written to the tunnel.
TunRecv ==
    /\ tu.pc = "select"
    /\ tu.rx # <<>>
    /\ tu' = [tu EXCEPT !.rx = Tail(@), !.fut = FutureDropped(@),
                        !.upstream = Append(@, Head(tu.rx))]
    /\ UNCHANGED notTunVars

(***************************************************************************)
(* proxy::try_handle_minecraft_status_cached: the status request read      *)
(* after the handshake, and the buffer handed back on a fallback.          *)
(***************************************************************************)
\* decode_varint_prefix: the VarInt at the head of buf, from at most five
\* bytes, or None while its last byte is missing.
RECURSIVE VarintPrefixFrom(_, _, _, _)
VarintPrefixFrom(buf, i, result, shifted) ==
    IF i > Len(buf) \/ i > 5 THEN None
    ELSE LET value == buf[i] % 128
             r == result + value * shifted
         IN  IF buf[i] < 128 THEN Some([value |-> r, n |-> i])
             ELSE VarintPrefixFrom(buf, i + 1, r, shifted * 128)

DecodeVarintPrefix(buf) == VarintPrefixFrom(buf, 1, 0, 1)

\* read_varint(payload, 0): the packet id, or None when the payload ends
\* before the VarInt does.
ReadPacketId(payload) == VarintPrefixFrom(payload, 1, 0, 1)

\* The call: captured at entry is the handshake frame followed by what came
\* with it; pending is what the client has sent and no read has returned;
\* read is every byte conn.read returned to this call.
StatusPath(pc, handshake_raw, post_handshake, pending) ==
    [pc |-> pc, handshake_raw |-> handshake_raw, entry |-> handshake_raw \o post_handshake,
     post_handshake |-> post_handshake, pending |-> pending, read |-> <<>>,
     total |-> 0, captured |-> handshake_raw \o post_handshake, ret |-> "none"]

StatusPathIdle == sp = StatusPath("none", <<>>, <<>>, <<>>)

\* `let mut restored = handshake_raw; restored.extend_from_slice(&post_handshake);
\*  *captured = restored; return false;`
StatusFallBack(st, post_handshake) ==
    [st EXCEPT !.pc = "returned", !.ret = "false", !.post_handshake = post_handshake,
               !.captured = st.handshake_raw \o post_handshake]

\* `let raw = buf.drain(..total).collect()` comes before read_varint(payload, 0):
\* when the id is missing the frame is already out of buf.
DrainedOnMissingId(buf, total) == SubSeq(buf, total + 1, Len(buf))

\* read_mc_packet_raw_buffered_opt at the top of its loop, and with the frame
\* complete the rest of the handler: the restore, the packet id check, and
\* the candidates, which serve the status (`served`) or all fail.
StatusDecode(served) ==
    /\ sp.pc = "decode"
    /\ LET buf == sp.post_handshake
           pre == DecodeVarintPrefix(buf)
       IN  IF pre = None THEN sp' = [sp EXCEPT !.pc = "read_len"]
           ELSE LET pkt_len == Unwrap(pre).value
                    len_n == Unwrap(pre).n
                    total == len_n + pkt_len
                IN  IF pkt_len > MaxStatusPacket THEN sp' = StatusFallBack(sp, buf)
                    ELSE IF Len(buf) < total
                    THEN sp' = [sp EXCEPT !.pc = "read_payload", !.total = total]
                    ELSE LET raw == SubSeq(buf, 1, total)
                             pid == ReadPacketId(SubSeq(raw, len_n + 1, total))
                         IN  IF pid = None
                             THEN sp' = StatusFallBack(sp, DrainedOnMissingId(buf, total))
                             ELSE LET rest == SubSeq(buf, total + 1, Len(buf))
                                      restored == [sp EXCEPT !.post_handshake = rest,
                                                      !.captured = sp.handshake_raw \o raw \o rest]
                                  IN  sp' = IF Unwrap(pid).value # 0 \/ ~served
                                            THEN [restored EXCEPT !.pc = "returned", !.ret = "false"]
                                            ELSE [restored EXCEPT !.pc = "returned", !.ret = "true"]
    /\ UNCHANGED notStatusVars

\* `conn.read(&mut tmp)` returns k bytes, which are appended to buf.
StatusRead(k) ==
    /\ sp.pc \in {"read_len", "read_payload"}
    /\ k >= 1
    /\ k <= Len(sp.pending)
    /\ LET got == SubSeq(sp.pending, 1, k)
           buf == sp.post_handshake \o got
       IN  sp' = [sp EXCEPT !.pending = SubSeq(@, k + 1, Len(@)),
                           !.read = @ \o got,
                           !.post_handshake = buf,
                           !.pc = IF sp.pc = "read_payload" /\ Len(buf) < sp.total
                                  THEN "read_payload" ELSE "decode"]
    /\ UNCHANGED notStatusVars

\* `conn.read` returns 0 (Ok(None) with an empty buf, an error otherwise), or
\* handshake_timeout passes while it is pending: either way the handler falls
\* back with what buf holds.
StatusReadEnds ==
    /\ sp.pc \in {"read_len", "read_payload"}
    /\ sp' = StatusFallBack(sp, sp.post_handshake)
    /\ UNCHANGED notStatusVars

(***************************************************************************)
(* tunnel::protocol: write_register_request / read_register_request        *)
(***************************************************************************)
MAGIC_REGISTER == <<"P", "R", "R", "G">>
PROTOCOL_V1 == 1

RegisterRequest(token, services) == [token |-> token, services |-> services]

\* serde_json text as a sequence of units: a punctuation mark, a key with its
\* colon, a literal, or one character of a string; the length of the sequence
\* stands for the length in bytes.
RECURSIVE JsonEscape(_)
JsonEscape(s) ==
    IF s = <<>> THEN <<>>
    ELSE (CASE Head(s) = "\"" -> <<"\\", "\"">>
            [] Head(s) = "\\" -> <<"\\", "\\">>
            [] Head(s) = "\t" -> <<"\\", "t">>
            [] OTHER -> <<Head(s)>>) \o JsonEscape(Tail(s))

JsonString(s) == <<"\"">> \o JsonEscape(s) \o <<"\"">>

JsonBool(b) == IF b THEN <<"true">> ELSE <<"false">>

\* #[derive(Serialize)] for RegisteredService: the fields in declaration order.
JsonService(s) ==
    <<"{", "name:">> \o JsonString(s.name)
    \o <<",", "proto:">> \o JsonString(s.proto)
    \o <<",", "local_addr:">> \o JsonString(s.local_addr)
    \o <<",", "route_only:">> \o JsonBool(s.route_only)
    \o <<",", "remote_addr:">> \o JsonString(s.remote_addr)
    \o <<",", "masquerade_host:">> \o JsonString(s.masquerade_host)
    \o <<"}">>

RECURSIVE JsonServices(_)
JsonServices(services) ==
    IF services = <<>> THEN <<>>
    ELSE IF Len(services) = 1 THEN JsonService(services[1])
    ELSE JsonService(services[1]) \o <<",">> \o JsonServices(Tail(services))

\* serde_json::to_vec(req)
ToJson(req) ==
    <<"{", "token:">> \o JsonString(req.token)
    \o <<",", "services:", "[">> \o JsonServices(req.services) \o <<"]", "}">>

\* The state of the deserializer: what is left of the text and the value built.
ParseOk(val, rest) == [ok |-> TRUE, val |-> val, rest |-> rest]
ParseFailed == [ok |-> FALSE, val |-> <<>>, rest |-> <<>>]

\* The characters of a string up to its closing quote, undoing the escapes.
RECURSIVE ParseChars(_, _)
ParseChars(text, acc) ==
    IF text = <<>> THEN ParseFailed
    ELSE IF Head(text) = "\"" THEN ParseOk(acc, Tail(text))
    ELSE IF Head(text) = "\\"
    THEN IF Len(text) < 2 THEN ParseFailed
         ELSE IF text[2] \in {"\"", "\\"}
         THEN ParseChars(SubSeq(text, 3, Len(text)), Append(acc, text[2]))
         ELSE IF text[2] = "t"
         THEN ParseChars(SubSeq(text, 3, Len(text)), Append(acc, "\t"))
         ELSE ParseFailed
    ELSE ParseChars(Tail(text), Append(acc, Head(text)))

ParseString(text) ==
    IF text = <<>> \/ Head(text) # "\"" THEN ParseFailed ELSE ParseChars(Tail(text), <<>>)

ParseBool(text) ==
    IF text = <<>> THEN ParseFailed
    ELSE IF Head(text) = "true" THEN ParseOk(TRUE, Tail(text))
    ELSE IF Head(text) = "false" THEN ParseOk(FALSE, Tail(text))
    ELSE ParseFailed

\* One `sep key value` of an object, stored into field `field` of st.val.
StoreField(st, p, field) ==
    IF ~p.ok THEN ParseFailed ELSE ParseOk([st.val EXCEPT ![field] = p.val], p.rest)

ParseField(st, sep, field, bool) ==
    IF ~st.ok THEN st
    ELSE IF Len(st.rest) < 2 \/ st.rest[1] # sep \/ st.rest[2] # field \o ":"
    THEN ParseFailed
    ELSE StoreField(st,
                    IF bool THEN ParseBool(SubSeq(st.rest, 3, Len(st.rest)))
                    ELSE ParseString(SubSeq(st.rest, 3, Len(st.rest))),
                    field)

ParseClose(st, mark) ==
    IF ~st.ok THEN st
    ELSE IF st.rest = <<>> \/ Head(st.rest) # mark THEN ParseFailed
    ELSE ParseOk(st.val, Tail(st.rest))

\* #[derive(Deserialize)] for RegisteredService on the serializer's layout.
ParseService(text) ==
    ParseClose(
      ParseField(
        ParseField(
          ParseField(
            ParseField(
              ParseField(
                ParseField(ParseOk(RegisteredService(<<>>, <<>>, <<>>, FALSE, <<>>, <<>>), text),
                           "{", "name", FALSE),
                ",", "proto", FALSE),
              ",", "local_addr", FALSE),
            ",", "route_only", TRUE),
          ",", "remote_addr", FALSE),
        ",", "masquerade_host", FALSE),
      "}")

\* The elements of the services array after its opening bracket.
RECURSIVE ParseServices(_, _)
ParseServicesNext(p, acc) ==
    IF ~p.ok \/ p.rest = <<>> THEN ParseFailed
    ELSE IF Head(p.rest) = "]" THEN ParseOk(Append(acc, p.val), Tail(p.rest))
    ELSE IF Head(p.rest) = "," THEN ParseServices(Tail(p.rest), Append(acc, p.val))
    ELSE ParseFailed

ParseServices(text, acc) == ParseServicesNext(ParseService(text), acc)

ParseArray(text) ==
    IF Len(text) < 2 \/ text[1] # "," \/ text[2] # "services:" THEN ParseFailed
    ELSE IF Len(text) < 4 \/ text[3] # "[" THEN ParseFailed
    ELSE IF text[4] = "]" THEN ParseOk(<<>>, SubSeq(text, 5, Len(text)))
    ELSE ParseServices(SubSeq(text, 4, Len(text)), <<>>)

ParseRequestTail(token, arr) ==
    IF ~arr.ok \/ arr.rest # <<"}">> THEN ParseFailed
    ELSE ParseOk(RegisterRequest(token.val, arr.val), <<>>)

ParseRequestToken(token) ==
    IF ~token.ok THEN ParseFailed ELSE ParseRequestTail(token, ParseArray(token.rest))

\* serde_json::from_slice::<RegisterRequest>(&buf)
FromJson(text) ==
    IF Len(text) < 2 \/ text[1] # "{" \/ text[2] # "token:" THEN ParseFailed
    ELSE ParseRequestToken(ParseString(SubSeq(text, 3, Len(text))))

\* write_register_request: magic, version, length, body.
WriteRegisterRequest(req) ==
    MAGIC_REGISTER \o <<PROTOCOL_V1>> \o U32Be(Len(ToJson(req))) \o ToJson(req)

\* A reader that keeps the services as sent.
NormalizedServicesRaw(services) == services

\* `for s in req.services.drain(..) { if let Some(ns) = s.normalize() { services.push(ns) } }`
RECURSIVE NormalizedServices(_)
NormalizedServices(services) ==
    IF services = <<>> THEN <<>>
    ELSE (IF Normalize(Head(services)) = None THEN <<>>
          ELSE <<Unwrap(Normalize(Head(services)))>>) \o NormalizedServices(Tail(services))

ReadOk(req) == [ok |-> TRUE, req |-> req, err |-> ""]
ReadErr(err) == [ok |-> FALSE, req |-> RegisterRequest(<<>>, <<>>), err |-> err]

ReadRegisterBody(parsed) ==
    IF ~parsed.ok THEN ReadErr("Json")
    ELSE ReadOk(RegisterRequest(parsed.val.token, NormalizedServices(parsed.val.services)))

\* read_register_request on a stream that holds one whole message.
ReadRegisterRequest(wire) ==
    IF SubSeq(wire, 1, 4) # MAGIC_REGISTER THEN ReadErr("BadMagic")
    ELSE IF wire[5] # PROTOCOL_V1 THEN ReadErr("BadVersion")
    ELSE IF FromU32Be(SubSeq(wire, 6, 9)) > MAX_REGISTER_JSON_BYTES
    THEN ReadErr("PayloadTooLarge")
    ELSE ReadRegisterBody(FromJson(SubSeq(wire, 10, 9 + FromU32Be(SubSeq(wire, 6, 9)))))

\* The client sends its request.
RegWrite ==
    /\ rg.pc = "write"
    /\ rg' = [rg EXCEPT !.pc = "read", !.wire = WriteRegisterRequest(rg.req)]
    /\ UNCHANGED notRegVars

\* The server reads it.
RegRead ==
    /\ rg.pc = "read"
    /\ rg' = [rg EXCEPT !.pc = "done", !.wire = <<>>,
                          !.got = Some(ReadRegisterRequest(rg.wire))]
    /\ UNCHANGED notRegVars

\* A stream between client and server with request `req` about to be sent.
RegStart(req) == [pc |-> "write", req |-> req, wire |-> <<>>, got |-> None]

\* No registration under way.
RegIdle == rg = [RegStart(RegisterRequest(<<>>, <<>>)) EXCEPT !.pc = "done"]

(***************************************************************************)
(* proxy::serve_udp_with_shutdown, proxy::UdpSession, proxy::udp_sweep_loop, *)
(* while the shutdown watch is false.                                      *)
(***************************************************************************)
Peers == {"p1", "p2"}

\* UdpSession::new: the channel with nothing queued, last_seen_unix_ms read
\* from the clock, and the spawned task holding the receiver; as history,
\* whether the sweeper has removed the session from the peer map; rx_done:
\* the task's rx.recv() has returned None.
UdpSessionNew(src) ==
    [src |-> src, last_seen |-> unix_ms, queue |-> <<>>, rx_open |-> TRUE, swept |-> FALSE,
     rx_done |-> FALSE]

\* tx.try_send(payload).is_err(): the channel is full, or its receiver is gone.
TrySendFailsWhenClosed(s) == ~udps[s].rx_open
TrySendFails(s) ==
    \/ ~udps[s].rx_open
    \/ Len(udps[s].queue) >= SessionQueueCapacity

\* The acceptor between datagrams, and where there is no listener.
AcceptorAt(pc) == [pc |-> pc, src |-> "", payload |-> <<>>, sess |-> 0, first |-> 0]

\* Sessions the datagram in hand may still create: one at the lookup, one on
\* a failed try_send.
RoomFor(src) == Len(udps) + (IF src \in DOMAIN sessions THEN 1 ELSE 2) <= MaxSessions

\* `sock.recv_from(&mut buf)` returned a datagram: an empty one is skipped,
\* otherwise the peer's session is looked up, or created and inserted.
UdpRecvFrom(src, payload) ==
    /\ ua.pc = "recv"
    /\ RoomFor(src)
    /\ IF payload = <<>>
       THEN UNCHANGED <<sessions, udps, ua>>
       ELSE IF src \in DOMAIN sessions
       THEN /\ ua' = [pc |-> "touch", src |-> src, payload |-> payload,
                      sess |-> sessions[src], first |-> sessions[src]]
            /\ UNCHANGED <<sessions, udps>>
       ELSE /\ udps' = Append(udps, UdpSessionNew(src))
            /\ sessions' = MapPut(sessions, src, Len(udps) + 1)
            /\ ua' = [pc |-> "touch", src |-> src, payload |-> payload,
                      sess |-> Len(udps) + 1, first |-> Len(udps) + 1]
    /\ UNCHANGED <<sweep, unix_ms, uopts, notUdpVars>>

\* sess.touch().
UdpTouch ==
    /\ ua.pc = "touch"
    /\ udps' = [udps EXCEPT ![ua.sess] = [@ EXCEPT !.last_seen = unix_ms]]
    /\ ua' = [ua EXCEPT !.pc = "send"]
    /\ UNCHANGED <<sessions, sweep, unix_ms, uopts, notUdpVars>>

\* `if sess.tx.try_send(payload).is_err()`: queued and done, or on to the
\* recreation.
UdpTrySend ==
    /\ ua.pc = "send"
    /\ IF TrySendFails(ua.sess)
       THEN /\ ua' = [ua EXCEPT !.pc = "remove"]
            /\ UNCHANGED udps
       ELSE /\ udps' = [udps EXCEPT ![ua.sess] = [@ EXCEPT !.queue = Append(@, ua.payload)]]
            /\ ua' = AcceptorAt("recv")
    /\ UNCHANGED <<sessions, sweep, unix_ms, uopts, notUdpVars>>

\* `let _ = sessions.remove(&src)`.
UdpRemove ==
    /\ ua.pc = "remove"
    /\ sessions' = MapDel(sessions, ua.src)
    /\ ua' = [ua EXCEPT !.pc = "recreate"]
    /\ UNCHANGED <<udps, sweep, unix_ms, uopts, notUdpVars>>

\* `sess = Arc::new(UdpSession::new(..)); sessions.insert(src, sess.clone())`.
UdpRecreate ==
    /\ ua.pc = "recreate"
    /\ udps' = Append(udps, UdpSessionNew(ua.src))
    /\ sessions' = MapPut(sessions, ua.src, Len(udps) + 1)
    /\ ua' = [ua EXCEPT !.pc = "resend", !.sess = Len(udps) + 1]
    /\ UNCHANGED <<sweep, unix_ms, uopts, notUdpVars>>

\* `let _ = sess.tx.try_send(buf[..n].to_vec())`: best effort.
UdpResend ==
    /\ ua.pc = "resend"
    /\ udps' = IF TrySendFails(ua.sess) THEN udps
               ELSE [udps EXCEPT ![ua.sess] = [@ EXCEPT !.queue = Append(@, ua.payload)]]
    /\ ua' = AcceptorAt("recv")
    /\ UNCHANGED <<sessions, sweep, unix_ms, uopts, notUdpVars>>

\* udp_session_loop: `Some(payload) = rx.recv()`, the payload going upstream.
UdpSessionRecv(s) ==
    /\ s \in 1..Len(udps)
    /\ udps[s].rx_open
    /\ udps[s].queue # <<>>
    /\ udps' = [udps EXCEPT ![s] = [@ EXCEPT !.queue = Tail(@)]]
    /\ UNCHANGED <<sessions, ua, sweep, unix_ms, uopts, notUdpVars>>

\* udp_session_loop returned (no upstream, a failed dial or bind, a failed
\* read or write): the task ends and drops the receiver with what it holds.
UdpSessionEnd(s) ==
    /\ s \in 1..Len(udps)
    /\ udps[s].rx_open
    /\ udps' = [udps EXCEPT ![s] = [@ EXCEPT !.rx_open = FALSE, !.queue = <<>>]]
    /\ UNCHANGED <<sessions, ua, sweep, unix_ms, uopts, notUdpVars>>

\* Every Arc of the session is gone, and with the last one its sender: the
\* peer map no longer holds it and the acceptor is not working with it.
TxDropped(s) ==
    /\ \A k \in DOMAIN sessions : sessions[k] # s
    /\ ~(ua.pc \in {"touch", "send", "remove", "recreate", "resend"} /\ ua.sess = s)

\* tokio::select! runs `else` only when every branch is disabled, and
\* `res = up.recv(..)` / `res = up.read_datagram(..)` binds whatever comes: the
\* upstream branch is never disabled.
UpBranchDisabled(s) == FALSE

\* udp_session_loop: rx.recv() returns None (the sender is dropped and the
\* queue empty), which disables the `Some(payload) = rx.recv()` branch; the
\* loop breaks if that leaves no branch, and waits for the upstream otherwise.
UdpSessionSenderGone(s) ==
    /\ s \in 1..Len(udps)
    /\ udps[s].rx_open
    /\ ~udps[s].rx_done
    /\ udps[s].queue = <<>>
    /\ TxDropped(s)
    /\ udps' = [udps EXCEPT ![s] = IF UpBranchDisabled(s)
                                   THEN [@ EXCEPT !.rx_open = FALSE]
                                   ELSE [@ EXCEPT !.rx_done = TRUE]]
    /\ UNCHANGED <<sessions, ua, sweep, unix_ms, uopts, notUdpVars>>

\* now.saturating_sub(last) > idle_ms.
SaturatingSub(a, b) == IF a >= b THEN a - b ELSE 0
IdleMuchLonger(s) == SaturatingSub(unix_ms, udps[s].last_seen) > uopts.idle_timeout + 1
IdleLonger(s) == SaturatingSub(unix_ms, udps[s].last_seen) > uopts.idle_timeout

\* udp_sweep_loop after a tick: the keys of the sessions idle for too long.
SweepTick ==
    /\ sweep.pc = "tick"
    /\ sweep' = IF uopts.idle_timeout <= 0 THEN sweep
                ELSE LET to_remove == {k \in DOMAIN sessions : IdleLonger(sessions[k])}
                     IN  IF to_remove = {} THEN sweep
                         ELSE [pc |-> "remove", to_remove |-> to_remove]
    /\ UNCHANGED <<sessions, udps, ua, unix_ms, uopts, notUdpVars>>

\* `sessions.remove(&k)` for one key of to_remove.
SweepRemove(k) ==
    /\ sweep.pc = "remove"
    /\ k \in sweep.to_remove
    /\ sessions' = MapDel(sessions, k)
    /\ udps' = IF k \in DOMAIN sessions
               THEN [udps EXCEPT ![sessions[k]] = [@ EXCEPT !.swept = TRUE]]
               ELSE udps
    /\ sweep' = IF sweep.to_remove = {k} THEN [pc |-> "tick", to_remove |-> {}]
                ELSE [sweep EXCEPT !.to_remove = @ \ {k}]
    /\ UNCHANGED <<ua, unix_ms, uopts, notUdpVars>>

UdpClockTick ==
    /\ unix_ms < MaxUnixMs
    /\ unix_ms' = unix_ms + 1
    /\ UNCHANGED <<sessions, udps, ua, sweep, uopts, notUdpVars>>

\* serve_udp_with_shutdown after the bind: an empty peer map, and the sweeper
\* spawned when idle_timeout is positive.
UdpServe(idle_timeout) ==
    /\ sessions = EmptyMap
    /\ udps = <<>>
    /\ ua = AcceptorAt("recv")
    /\ sweep = [pc |-> IF idle_timeout > 0 THEN "tick" ELSE "none", to_remove |-> {}]
    /\ unix_ms = 0
    /\ uopts = [idle_timeout |-> idle_timeout]

\* No UDP listener.
UdpIdle ==
    /\ sessions = EmptyMap
    /\ udps = <<>>
    /\ ua = AcceptorAt("stopped")
    /\ sweep = [pc |-> "none", to_remove |-> {}]
    /\ unix_ms = 0
    /\ uopts = [idle_timeout |-> 0]

(***************************************************************************)
(* tunnel::server: listen_and_serve spawns one handle_session per accepted *)
(* transport session.                                                      *)
(***************************************************************************)
\* config.rs stores `auth_token` trimmed.
ConfiguredAuthToken(raw) == Trim(raw)

\* Manager::next_client_id: `format!("{p}-{n}")`.
NextClientIdFixed(prefix, n) ==
    (IF Trim(prefix) = <<>> THEN <<"c">> ELSE Trim(prefix)) \o <<"-">> \o Decimal(1)

NextClientId(prefix, n) ==
    (IF Trim(prefix) = <<>> THEN <<"c">> ELSE Trim(prefix)) \o <<"-">> \o Decimal(n)

\* `!auth_token.trim().is_empty() && req.token != auth_token`
BadTokenTrimmed(auth_token, token) == Trim(auth_token) # <<>> /\ Trim(token) # auth_token

BadToken(auth_token, token) == Trim(auth_token) # <<>> /\ token # auth_token

\* A transport session as handle_session sees it: `open` until the client side
\* goes away, `closed` once the server called sess.close().
SessionTask ==
    [pc |-> "start", cid |-> <<>>, req |-> None, open |-> TRUE, closed |-> FALSE,
     registered |-> FALSE, unsolicited |-> 0, result |-> "running"]

SessionAlive(s) == srv[s].open /\ ~srv[s].closed

\* `sess = ln.accept()`, `tokio::spawn(handle_session(mgr, sess, token))`.
SrvAccept ==
    /\ Len(srv) < MaxTunnelSessions
    /\ srv' = Append(srv, SessionTask)
    /\ UNCHANGED <<id_seq, srvopts, notSrvVars>>

\* The peer goes away or the connection is lost.
SessionLost(s) ==
    /\ s \in 1..Len(srv)
    /\ srv[s].open
    /\ srv' = [srv EXCEPT ![s].open = FALSE]
    /\ UNCHANGED <<id_seq, srvopts, notSrvVars>>

\* `let cid = mgr.next_client_id("c")`
HsNextClientId(s) ==
    /\ s \in 1..Len(srv)
    /\ srv[s].pc = "start"
    /\ srv' = [srv EXCEPT ![s].cid = NextClientId(<<"c">>, id_seq), ![s].pc = "accept_register"]
    /\ id_seq' = id_seq + 1
    /\ UNCHANGED <<srvopts, notSrvVars>>

\* `let mut reg = sess.accept_stream().await?` and
\* `let req = protocol::read_register_request(&mut reg).await?`: the request
\* the client wrote, or an error that ends the task.
HsReadRegister(s, req) ==
    /\ s \in 1..Len(srv)
    /\ srv[s].pc = "accept_register"
    /\ SessionAlive(s)
    /\ srv' = [srv EXCEPT ![s].req = Some(req), ![s].pc = "auth"]
    /\ UNCHANGED <<id_seq, srvopts, notSrvVars>>

HsReadRegisterErr(s) ==
    /\ s \in 1..Len(srv)
    /\ srv[s].pc = "accept_register"
    /\ srv' = [srv EXCEPT ![s].pc = "done", ![s].result = "err"]
    /\ UNCHANGED <<id_seq, srvopts, notSrvVars>>

\* The token check: on a mismatch `sess.close().await; return Ok(())`.
HsAuth(s) ==
    /\ s \in 1..Len(srv)
    /\ srv[s].pc = "auth"
    /\ IF BadToken(srvopts.auth_token, Unwrap(srv[s].req).token)
       THEN srv' = [srv EXCEPT ![s].closed = TRUE, ![s].pc = "done", ![s].result = "ok"]
       ELSE srv' = [srv EXCEPT ![s].pc = "register"]
    /\ UNCHANGED <<id_seq, srvopts, notSrvVars>>

\* `mgr.register_client(cid.clone(), sess.clone(), req.services).await?`
HsRegister(s, started) ==
    /\ s \in 1..Len(srv)
    /\ srv[s].pc = "register"
    /\ RegisterClientLocked(srv[s].cid, Unwrap(srv[s].req).services, started)
    /\ srv' = [srv EXCEPT ![s].registered = TRUE, ![s].pc = "loop"]
    /\ UNCHANGED <<now, id_seq, srvopts, notSrvMgrVars>>

\* `Ok(mut st) => { timeout(1 s, st.shutdown()) }`: a stream the client opened
\* is shut down, within a second, and the loop goes on.
HsCloseUnsolicited(s) ==
    /\ s \in 1..Len(srv)
    /\ srv[s].pc = "loop"
    /\ SessionAlive(s)
    /\ srv[s].unsolicited < MaxUnsolicited
    /\ srv' = [srv EXCEPT ![s].unsolicited = @ + 1]
    /\ UNCHANGED <<id_seq, srvopts, notSrvVars>>

\* `Err(_) => break`: accept_stream fails once the session is gone.
HsAcceptStreamErr(s) ==
    /\ s \in 1..Len(srv)
    /\ srv[s].pc = "loop"
    /\ ~SessionAlive(s)
    /\ srv' = [srv EXCEPT ![s].pc = "unregister"]
    /\ UNCHANGED <<id_seq, srvopts, notSrvVars>>

\* `mgr.unregister_client(&cid).await`, which closes the session it removed.
HsUnregister(s) ==
    /\ s \in 1..Len(srv)
    /\ srv[s].pc = "unregister"
    /\ IF srv[s].cid \in DOMAIN clients
       THEN /\ UnregisterClientLocked(srv[s].cid)
            /\ srv' = [srv EXCEPT ![s].closed = TRUE, ![s].pc = "done", ![s].result = "ok"]
       ELSE /\ UNCHANGED <<clients, primary, mgrLast, dl>>
            /\ srv' = [srv EXCEPT ![s].pc = "done", ![s].result = "ok"]
    /\ UNCHANGED <<now, id_seq, srvopts, notSrvMgrVars>>

\* Server::new with the configured token; Manager::new starts id_seq at 1.
ServerNew(raw_token) ==
    /\ srv = <<>>
    /\ id_seq = 1
    /\ srvopts = [auth_token |-> ConfiguredAuthToken(raw_token)]

SrvIdle == ServerNew(<<>>)

(***************************************************************************)
(* tunnel::client: Client::run and Client::run_once.  Durations are whole  *)
(* seconds.                                                                *)
(***************************************************************************)
\* Client::new: `if opts.dial_timeout <= 0 { opts.dial_timeout = 5 s }`
ClientDialTimeout(dial_timeout) == IF dial_timeout <= 0 THEN 5 ELSE dial_timeout

\* `backoff = (backoff * 2).min(Duration::from_secs(10))`
NextBackoff(backoff) == IF backoff * 2 < 10 THEN backoff * 2 ELSE 10

\* `run_once` returned an error: the warning is logged and the loop goes on to
\* wait `backoff`.  History: `retries` counts the waits since run began,
\* `consecutive` those since the last connection that was established.
ClientFailed(elapsed) ==
    [tc EXCEPT !.pc = "wait", !.elapsed = elapsed, !.waiting = tc.backoff,
               !.retries = @ + 1, !.consecutive = @ + 1]

\* `if *shutdown.borrow() { return Ok(()) }` at the top of the loop.
ClientLoopTop ==
    /\ tc.pc = "top"
    /\ tc' = [tc EXCEPT !.pc = IF tc.shutdown THEN "done" ELSE "dial"]
    /\ UNCHANGED notClientVars

\* `tokio::time::timeout(self.opts.dial_timeout, dial).await??`: a dial that
\* needs `d` seconds gives its result if it is ready by the deadline, and
\* Elapsed at the deadline otherwise.
ClientDial(d, ok) ==
    /\ tc.pc = "dial"
    /\ tc.retries < MaxRetries
    /\ IF d > tc.dial_timeout THEN tc' = ClientFailed(tc.dial_timeout)
       ELSE IF ok THEN tc' = [tc EXCEPT !.pc = "register", !.elapsed = d]
       ELSE tc' = ClientFailed(d)
    /\ UNCHANGED notClientVars

\* open_stream, write_register_request, `reg.shutdown()`: any of them may fail.
ClientRegister(ok) ==
    /\ tc.pc = "register"
    /\ IF ok THEN tc' = [tc EXCEPT !.pc = "connected", !.consecutive = 0]
       ELSE tc' = ClientFailed(tc.elapsed)
    /\ UNCHANGED notClientVars

\* `st = sess.accept_stream() => { let st = st?; tokio::spawn(handle_stream) }`
ClientAcceptStream(ok) ==
    /\ tc.pc = "connected"
    /\ IF ok THEN tc' = [tc EXCEPT !.streams = IF @ < MaxStreams THEN @ + 1 ELSE @]
       ELSE tc' = ClientFailed(tc.elapsed)
    /\ UNCHANGED notClientVars

\* `_ = shutdown.changed() => if *shutdown.borrow() { sess.close(); return Ok(()) }`
ClientConnectedShutdown ==
    /\ tc.pc = "connected"
    /\ tc.shutdown
    /\ tc' = [tc EXCEPT !.pc = "done"]
    /\ UNCHANGED notClientVars

\* `select! { shutdown.changed() => return if true, sleep(backoff) => {} }`
\* and then `backoff = (backoff * 2).min(10 s)`.
ClientSleep ==
    /\ tc.pc = "wait"
    /\ tc' = [tc EXCEPT !.pc = "top", !.backoff = NextBackoff(@)]
    /\ UNCHANGED notClientVars

ClientWaitShutdown ==
    /\ tc.pc = "wait"
    /\ tc.shutdown
    /\ tc' = [tc EXCEPT !.pc = "done"]
    /\ UNCHANGED notClientVars

\* `shutdown_tx.send(true)`
ClientShutdownSent ==
    /\ tc.pc # "idle"
    /\ ~tc.shutdown
    /\ tc' = [tc EXCEPT !.shutdown = TRUE]
    /\ UNCHANGED notClientVars

\* Client::new and the first lines of run: `let mut backoff = 1 s`.
ClientAt(pc, dial_timeout) ==
    [pc |-> pc, dial_timeout |-> ClientDialTimeout(dial_timeout), backoff |-> 1,
     shutdown |-> FALSE, elapsed |-> 0, waiting |-> 0, retries |-> 0,
     consecutive |-> 0, streams |-> 0]

ClientRun(dial_timeout) == tc = ClientAt("top", dial_timeout)

ClientIdle == tc = ClientAt("idle", 0)

(***************************************************************************)
(* app::run from the moment every task is spawned, and the loops that      *)
(* select on the shutdown watch: serve_tcp_with_shutdown,                  *)
(* serve_udp_with_shutdown and udp_sweep_loop, reload_loop,                *)
(* AutoListener::run and a listener it starts, Server::listen_and_serve,   *)
(* Client::run.                                                            *)
(***************************************************************************)
\* `let drain_timeout = Duration::from_secs(5)`
DrainTimeout == 5

\* The tasks app::run keeps in its JoinSet, and those spawned detached.
JoinSetTasks == {"reload", "tcp", "udp", "server", "auto", "client"}
DetachedTasks == {"sweep", "listener"}

\* A task that has not ended: waiting in a select!, at the top of the
\* client's loop, or inside a branch body or call that awaits.
RunningPcs == {"select", "top", "body", "dial", "register", "connected", "wait"}
TaskRunning(l) == lp[l].pc \in RunningPcs

\* watch::Receiver::changed is ready while the receiver has not seen the
\* latest version; a clone starts with the version its original has seen.
WatchChanged(l) == lp[l].seen # sd.version

\* `if *shutdown.borrow() { break; }`
BreaksNever(value) == FALSE

Breaks(value) == value

\* The shutdown branch of a loop's select!: the version is marked seen and
\* the loop is left when the value is true.
ObserveShutdown(l) ==
    [lp EXCEPT ![l].seen = sd.version,
               ![l].pc = IF Breaks(sd.value) THEN "exited" ELSE @]

\* ---- proxy::serve_tcp_with_shutdown ----
TcpLoopShutdown ==
    /\ lp["tcp"].pc = "select" /\ WatchChanged("tcp")
    /\ lp' = ObserveShutdown("tcp")
    /\ UNCHANGED <<sd, notShutdownVars>>

\* `res = ln.accept()`: the connection goes to a spawned task.
TcpLoopAccept ==
    /\ lp["tcp"].pc = "select"
    /\ UNCHANGED <<lp, sd, notShutdownVars>>

\* `let (conn, peer) = res?`
TcpLoopAcceptErr ==
    /\ lp["tcp"].pc = "select"
    /\ lp' = [lp EXCEPT !["tcp"].pc = "failed"]
    /\ UNCHANGED <<sd, notShutdownVars>>

\* ---- proxy::serve_udp_with_shutdown ----
UdpLoopShutdown ==
    /\ lp["udp"].pc = "select" /\ WatchChanged("udp")
    /\ lp' = ObserveShutdown("udp")
    /\ UNCHANGED <<sd, notShutdownVars>>

\* `res = sock.recv_from(&mut buf)`: the datagram is queued without waiting.
UdpLoopRecv ==
    /\ lp["udp"].pc = "select"
    /\ UNCHANGED <<lp, sd, notShutdownVars>>

UdpLoopRecvErr ==
    /\ lp["udp"].pc = "select"
    /\ lp' = [lp EXCEPT !["udp"].pc = "failed"]
    /\ UNCHANGED <<sd, notShutdownVars>>

\* ---- proxy::udp_sweep_loop ----
SweepLoopShutdown ==
    /\ lp["sweep"].pc = "select" /\ WatchChanged("sweep")
    /\ lp' = ObserveShutdown("sweep")
    /\ UNCHANGED <<sd, notShutdownVars>>

\* `_ = tick.tick() => {}` and the scan, which never waits.
SweepLoopTick ==
    /\ lp["sweep"].pc = "select"
    /\ UNCHANGED <<lp, sd, notShutdownVars>>

\* ---- app::reload_loop ----
ReloadLoopShutdown ==
    /\ lp["reload"].pc = "select" /\ WatchChanged("reload")
    /\ lp' = ObserveShutdown("reload")
    /\ UNCHANGED <<sd, notShutdownVars>>

\* `reload_rx.changed()` or the poll timer: apply_reload is awaited.
ReloadLoopReload ==
    /\ lp["reload"].pc = "select"
    /\ lp' = [lp EXCEPT !["reload"].pc = "body"]
    /\ UNCHANGED <<sd, notShutdownVars>>

ReloadLoopApplied ==
    /\ lp["reload"].pc = "body"
    /\ lp' = [lp EXCEPT !["reload"].pc = "select"]
    /\ UNCHANGED <<sd, notShutdownVars>>

\* ---- tunnel::autolisten::AutoListener::run ----
\* reconcile returns; it may have spawned a listener.
AutoLoopReconciled(spawn) ==
    /\ lp["auto"].pc = "body"
    /\ lp' = [lp EXCEPT !["auto"].pc = "select",
                        !["listener"].pc = IF @ = "none" /\ spawn THEN "select" ELSE @]
    /\ UNCHANGED <<sd, notShutdownVars>>

\* `_ = sub.changed() => self.reconcile().await`
AutoLoopChanged ==
    /\ lp["auto"].pc = "select"
    /\ lp' = [lp EXCEPT !["auto"].pc = "body"]
    /\ UNCHANGED <<sd, notShutdownVars>>

\* The shutdown branch, and after the loop `shutdown_all`: `stop.send(true)`
\* and `task.abort()` for every running listener.
AutoLoopShutdown ==
    /\ lp["auto"].pc = "select" /\ WatchChanged("auto")
    /\ lp' = IF Breaks(sd.value)
             THEN [ObserveShutdown("auto") EXCEPT
                      !["listener"].pc = IF TaskRunning("listener") THEN "aborted" ELSE @]
             ELSE ObserveShutdown("auto")
    /\ UNCHANGED <<sd, notShutdownVars>>

\* ---- autolisten::run_tcp_listener / run_udp_listener ----
\* A connection or datagram arrives; the UDP listener awaits the tunnel dial
\* and the write inside the branch.
ListenerLoopBranch ==
    /\ lp["listener"].pc = "select"
    /\ lp' = [lp EXCEPT !["listener"].pc = "body"]
    /\ UNCHANGED <<sd, notShutdownVars>>

ListenerLoopBodyDone(ok) ==
    /\ lp["listener"].pc = "body"
    /\ lp' = [lp EXCEPT !["listener"].pc = IF ok THEN "select" ELSE "failed"]
    /\ UNCHANGED <<sd, notShutdownVars>>

\* ---- tunnel::server::Server::listen_and_serve ----
\* The shutdown branch, then `ln.close().await?`.
ServerLoopShutdown ==
    /\ lp["server"].pc = "select" /\ WatchChanged("server")
    /\ lp' = ObserveShutdown("server")
    /\ UNCHANGED <<sd, notShutdownVars>>

ServerLoopAccept ==
    /\ lp["server"].pc = "select"
    /\ UNCHANGED <<lp, sd, notShutdownVars>>

\* `let sess = sess?`
ServerLoopAcceptErr ==
    /\ lp["server"].pc = "select"
    /\ lp' = [lp EXCEPT !["server"].pc = "failed"]
    /\ UNCHANGED <<sd, notShutdownVars>>

\* ---- tunnel::client::Client::run ----
\* `if *shutdown.borrow() { return Ok(()) }`
RunClientTop ==
    /\ lp["client"].pc = "top"
    /\ lp' = [lp EXCEPT !["client"].pc = IF Breaks(sd.value) THEN "exited" ELSE "dial"]
    /\ UNCHANGED <<sd, notShutdownVars>>

\* The dial, which ends by dial_timeout at the latest.
RunClientDialed(ok) ==
    /\ lp["client"].pc = "dial"
    /\ lp' = [lp EXCEPT !["client"].pc = IF ok THEN "register" ELSE "wait"]
    /\ UNCHANGED <<sd, notShutdownVars>>

\* open_stream, write_register_request and shutdown of the register stream,
\* none of which is bounded.
RunClientRegistered(ok) ==
    /\ lp["client"].pc = "register"
    /\ lp' = [lp EXCEPT !["client"].pc = IF ok THEN "connected" ELSE "wait"]
    /\ UNCHANGED <<sd, notShutdownVars>>

\* run_once's select!: the shutdown branch closes the session and returns.
RunClientConnectedShutdown ==
    /\ lp["client"].pc = "connected" /\ WatchChanged("client")
    /\ lp' = ObserveShutdown("client")
    /\ UNCHANGED <<sd, notShutdownVars>>

RunClientStream(ok) ==
    /\ lp["client"].pc = "connected"
    /\ lp' = [lp EXCEPT !["client"].pc = IF ok THEN @ ELSE "wait"]
    /\ UNCHANGED <<sd, notShutdownVars>>

\* run's select! between the shutdown watch and `sleep(backoff)`.
RunClientWaitShutdown ==
    /\ lp["client"].pc = "wait" /\ WatchChanged("client")
    /\ lp' = ObserveShutdown("client")
    /\ UNCHANGED <<sd, notShutdownVars>>

RunClientSlept ==
    /\ lp["client"].pc = "wait"
    /\ lp' = [lp EXCEPT !["client"].pc = "top"]
    /\ UNCHANGED <<sd, notShutdownVars>>

\* ---- app::run ----
TaskFinished(l) == lp[l].pc \in {"exited", "failed", "aborted"}

\* A loop that can act at once on the shutdown value: it is at a select! whose
\* shutdown branch is ready, or at the check at the top of the client's loop.
ActsAtOnce(l) ==
    \/ lp[l].pc \in {"select", "connected", "wait"} /\ l # "listener" /\ WatchChanged(l)
    \/ lp[l].pc = "top"

\* `tasks.abort_all()`, and equally the drop of the JoinSet.
AbortAll == [l \in DOMAIN lp |-> IF l \in JoinSetTasks /\ TaskRunning(l)
                                 THEN [lp[l] EXCEPT !.pc = "aborted"] ELSE lp[l]]

\* `_ = shutdown_signal() => { let _ = shutdown_tx.send(true); }`
MainShutdownSignal ==
    /\ sd.pc = "select"
    /\ sd' = [sd EXCEPT !.pc = "drain", !.value = TRUE, !.version = @ + 1]
    /\ UNCHANGED <<lp, notShutdownVars>>

\* `Ok(Err(err)) => { let _ = shutdown_tx.send(true); return Err(err); }`:
\* the JoinSet is dropped on return.
MainTaskFailed ==
    /\ sd.pc = "select"
    /\ \E l \in JoinSetTasks : lp[l].pc = "failed"
    /\ sd' = [sd EXCEPT !.pc = "returned", !.value = TRUE, !.version = @ + 1]
    /\ lp' = AbortAll
    /\ UNCHANGED notShutdownVars

\* The drain: `while let Some(_) = tasks.join_next().await {}` ends.
MainDrainJoined ==
    /\ sd.pc = "drain"
    /\ \A l \in JoinSetTasks : TaskFinished(l)
    /\ sd' = [sd EXCEPT !.pc = "returned"]
    /\ UNCHANGED <<lp, notShutdownVars>>

\* A second of the drain passes.  A loop that can act at once does so before
\* time passes, here and when the timeout fires.
MainDrainTick ==
    /\ sd.pc = "drain"
    /\ sd.elapsed < DrainTimeout
    /\ \E l \in JoinSetTasks : ~TaskFinished(l)
    /\ \A l \in DOMAIN lp : ~ActsAtOnce(l)
    /\ sd' = [sd EXCEPT !.elapsed = @ + 1]
    /\ UNCHANGED <<lp, notShutdownVars>>

\* `timeout(drain_timeout, drain).await.is_err()`: abort_all and join.
MainDrainAbort ==
    /\ sd.pc = "drain"
    /\ sd.elapsed >= DrainTimeout
    /\ \E l \in JoinSetTasks : ~TaskFinished(l)
    /\ \A l \in DOMAIN lp : ~ActsAtOnce(l)
    /\ sd' = [sd EXCEPT !.pc = "returned"]
    /\ lp' = AbortAll
    /\ UNCHANGED notShutdownVars

\* main returns and the runtime is dropped with every task still on it.
MainRuntimeDrop ==
    /\ sd.pc = "returned"
    /\ sd' = [sd EXCEPT !.pc = "exit"]
    /\ lp' = [l \in DOMAIN lp |-> IF TaskRunning(l) THEN [lp[l] EXCEPT !.pc = "dropped"] ELSE lp[l]]
    /\ UNCHANGED notShutdownVars

\* Every task is spawned and app::run is at its select!; the sweeper exists
\* when idle_timeout > 0, and the auto-listener starts with a reconcile.
RunSpawned(sweeper) ==
    /\ sd = [pc |-> "select", value |-> FALSE, version |-> 0, elapsed |-> 0]
    /\ lp = [l \in JoinSetTasks \cup DetachedTasks |->
               [pc |-> CASE l = "client" -> "top"
                         [] l = "auto" -> "body"
                         [] l = "listener" -> "none"
                         [] l = "sweep" -> IF sweeper THEN "select" ELSE "none"
                         [] OTHER -> "select",
                seen |-> 0]]

ShutdownIdle ==
    /\ sd = [pc |-> "idle", value |-> FALSE, version |-> 0, elapsed |-> 0]
    /\ lp = [l \in JoinSetTasks \cup DetachedTasks |-> [pc |-> "none", seen |-> 0]]

(***************************************************************************)
(* app::apply_reload: load the file, build every route's chain, store the  *)
(* new table, then write the runtime configuration.                        *)
(***************************************************************************)

\* What config::load_config returns for a file it cannot read, parse or validate.
ConfigLoadErr == [ok |-> FALSE]

\* A loaded Config as far as apply_reload reads it.
LoadedConfig(routes, runtime_config, enabled, poll_interval) ==
    [ok |-> TRUE, routes |-> routes, runtime |-> runtime_config,
     enabled |-> enabled, poll_interval |-> poll_interval]

\* MiddlewareProvider::chain over a directory, given as the set of module names
\* whose <name>.wat is there and compiles: every get must succeed.
BuildChain(dir, names) == \A i \in 1..Len(names) : names[i] \in dir

\* A build that leaves out the routes whose chain fails instead of returning.
RECURSIVE BuildRoutesSkipping(_, _)
BuildRoutesSkipping(routes, dir) ==
    IF routes = <<>> THEN [ok |-> TRUE, out |-> <<>>]
    ELSE LET rest == BuildRoutesSkipping(Tail(routes), dir)
         IN  IF BuildChain(dir, Head(routes).middlewares)
             THEN [ok |-> TRUE, out |-> <<Head(routes)>> \o rest.out]
             ELSE rest

\* build_routes_with_middlewares: `?` at the first chain that is not built;
\* `out` is the vector at that moment.
RECURSIVE BuildRoutesWithMiddlewares(_, _)
BuildRoutesWithMiddlewares(routes, dir) ==
    IF routes = <<>> THEN [ok |-> TRUE, out |-> <<>>]
    ELSE IF ~BuildChain(dir, Head(routes).middlewares) THEN [ok |-> FALSE, out |-> <<>>]
    ELSE LET rest == BuildRoutesWithMiddlewares(Tail(routes), dir)
         IN  [ok |-> rest.ok,
              out |-> IF rest.ok THEN <<Head(routes)>> \o rest.out ELSE <<>>]

\* A write of the runtime configuration that a failed build does not stop.
RuntimeWrittenAlways(built) == TRUE

\* `Err(err) => { warn!; return; }` comes before the write of the runtime.
RuntimeWritten(built) == built.ok

\* apply_reload up to the result of load_config. `before` keeps, as history,
\* the table and the runtime configuration the attempt started from.
ApplyReloadLoad(file) ==
    /\ rl.pc = "idle"
    /\ rl.attempts < MaxReloads
    /\ rl' = [rl EXCEPT !.pc = IF file.ok THEN "build" ELSE "idle",
                        !.cfg = file,
                        !.dir = {},
                        !.attempts = @ + 1,
                        !.last = IF file.ok THEN "running" ELSE "load_failed",
                        !.before = [compiled |-> compiled, table |-> tables[compiled],
                                    runtime |-> tcprt, ntables |-> Len(tables)]]
    /\ UNCHANGED <<tcprt, routerVars, notRouterReloadVars>>

\* build_routes_with_middlewares and the match on it: router.update or return.
ApplyReloadBuild(dir) ==
    /\ rl.pc = "build"
    /\ LET built == BuildRoutesWithMiddlewares(rl.cfg.routes, dir)
       IN  /\ IF built.ok
              THEN /\ Len(tables) < MaxUpdates + 1
                   /\ LET out == CompileRoutes(built.out)
                      IN  /\ tables' = Append(tables, [routes |-> out])
                          /\ rr' = Append(rr, ZeroCounters(out))
                          /\ hits' = Append(hits, ZeroCounters(out))
                          /\ compiled' = Len(tables) + 1
              ELSE UNCHANGED <<compiled, tables, rr, hits>>
           /\ rl' = [rl EXCEPT !.pc = IF RuntimeWritten(built) THEN "runtime" ELSE "idle",
                               !.dir = dir,
                               !.last = IF built.ok THEN "running" ELSE "build_failed"]
    /\ UNCHANGED <<rs, tcprt, notRouterReloadVars>>

\* `*runtime.write().await = ...`, then the two locals of reload_loop.
ApplyReloadRuntime ==
    /\ rl.pc = "runtime"
    /\ tcprt' = rl.cfg.runtime
    /\ rl' = [rl EXCEPT !.pc = "idle", !.enabled = rl.cfg.enabled,
                        !.poll_interval = rl.cfg.poll_interval,
                        !.last = IF @ = "running" THEN "applied" ELSE @]
    /\ UNCHANGED <<routerVars, notRouterReloadVars>>

\* app::run before reload_loop is spawned: the runtime configuration and the
\* reload settings of the configuration it started with.
ReloadLoopNew(cfg) ==
    /\ rl = [pc |-> "idle", cfg |-> cfg, dir |-> {}, attempts |-> 0, last |-> "none",
             enabled |-> cfg.enabled, poll_interval |-> cfg.poll_interval,
             before |-> [compiled |-> 0, table |-> [routes |-> <<>>],
                         runtime |-> cfg.runtime, ntables |-> 0]]
    /\ tcprt = cfg.runtime

ReloadIdle == ReloadLoopNew(LoadedConfig(<<>>, RoutingRuntime(0, FALSE), FALSE, 0))

(***************************************************************************)
(* tunnel::autolisten: run_udp_listener and run_tcp_listener, one task     *)
(* each, spawned by reconcile.                                             *)
(***************************************************************************)

\* UdpFlow: the write half, the task relaying the tunnel's datagrams to the
\* peer, and as history the number of datagrams written for the peer.
UdpFlow(task) == [task |-> task, written |-> 0]

ListenerRunning(l) == l.pc = "select"

\* The flows of a listener that returned: the map is dropped with its write
\* halves, the tasks are detached by the drop of their JoinHandle.
FlowsDropped(flows) == [p \in {} |-> UdpFlow("running")]

\* `for (_k, f) in flows.drain() { f.task.abort(); }`
FlowsDrained(flows) == [p \in {} |-> UdpFlow("aborted")]

\* `res = sock.recv_from(&mut buf)` with a datagram of n bytes from peer: the
\* whole branch. dial_ok is the outcome of dial_service_udp_from_client when the
\* peer has no flow, write_ok that of the three writes on the flow's stream.
UdpListenerRecv(peer, n, dial_ok, write_ok) ==
    /\ ListenerRunning(ul)
    /\ IF n > MAX_DATAGRAM_BYTES
       THEN ul' = [ul EXCEPT !.last = [branch |-> "oversize", peer |-> peer]]
       ELSE IF peer \notin DOMAIN ul.flows /\ ~dial_ok
       THEN ul' = [ul EXCEPT !.pc = "failed", !.flows = FlowsDropped(ul.flows),
                             !.detached = @ \cup {p \in DOMAIN ul.flows :
                                                     ul.flows[p].task = "running"},
                             !.last = [branch |-> "dial_failed", peer |-> peer]]
       ELSE LET flows == IF peer \in DOMAIN ul.flows THEN ul.flows
                         ELSE [p \in DOMAIN ul.flows \cup {peer} |->
                                  IF p = peer THEN UdpFlow("running") ELSE ul.flows[p]]
            IN  /\ flows[peer].written < MaxFlowWrites
                /\ IF write_ok
                   THEN ul' = [ul EXCEPT !.flows = [flows EXCEPT ![peer].written = @ + 1],
                                         !.last = [branch |-> "written", peer |-> peer]]
                   ELSE ul' = [ul EXCEPT !.pc = "failed", !.flows = FlowsDropped(flows),
                                         !.detached = @ \cup {p \in DOMAIN flows :
                                                                 flows[p].task = "running"},
                                         !.last = [branch |-> "write_failed", peer |-> peer]]
    /\ UNCHANGED <<tl, notListenVars>>

\* `let (n, peer) = res?;` with an error from the socket.
UdpListenerRecvErr ==
    /\ ListenerRunning(ul)
    /\ ul' = [ul EXCEPT !.pc = "failed", !.flows = FlowsDropped(ul.flows),
                        !.detached = @ \cup {p \in DOMAIN ul.flows :
                                                ul.flows[p].task = "running"},
                        !.last = [branch |-> "recv_failed", peer |-> "none"]]
    /\ UNCHANGED <<tl, notListenVars>>

\* `_ = tick.tick()`: the flows in `dead` are the ones idle for longer than
\* udp_flow_idle_timeout; nothing is removed when the timeout is zero.
UdpListenerTick(dead) ==
    /\ ListenerRunning(ul)
    /\ dead \subseteq DOMAIN ul.flows
    /\ ul.idle = 0 => dead = {}
    /\ ul' = [ul EXCEPT !.flows = [p \in DOMAIN ul.flows \ dead |-> ul.flows[p]],
                        !.last = [branch |-> "tick", peer |-> "none"]]
    /\ UNCHANGED <<tl, notListenVars>>

\* `_ = stop.changed()` with the value true, and the drain after the loop.
UdpListenerStop ==
    /\ ListenerRunning(ul)
    /\ ul' = [ul EXCEPT !.pc = "stopped", !.flows = FlowsDrained(ul.flows),
                        !.last = [branch |-> "stop", peer |-> "none"]]
    /\ UNCHANGED <<tl, notListenVars>>

\* The task of a flow leaves its loop: the tunnel stream ended, or a frame
\* was longer than MAX_DATAGRAM_BYTES. The flow stays in the map.
UdpFlowTaskEnded(peer) ==
    /\ peer \in DOMAIN ul.flows
    /\ ul.flows[peer].task = "running"
    /\ ul' = [ul EXCEPT !.flows[peer].task = "ended",
                        !.last = [branch |-> "task_ended", peer |-> peer]]
    /\ UNCHANGED <<tl, notListenVars>>

\* `res = ln.accept()` with a connection: handle_tcp_conn is spawned.
TcpListenerAccept ==
    /\ ListenerRunning(tl)
    /\ Len(tl.conns) < MaxConns
    /\ tl' = [tl EXCEPT !.conns = Append(@, "dial"),
                        !.last = [branch |-> "accepted", conn |-> Len(tl.conns) + 1]]
    /\ UNCHANGED <<ul, notListenVars>>

\* `let (mut c, peer) = res?;` with an error from accept.
TcpListenerAcceptErr ==
    /\ ListenerRunning(tl)
    /\ tl' = [tl EXCEPT !.pc = "failed", !.last = [branch |-> "accept_failed", conn |-> 0]]
    /\ UNCHANGED <<ul, notListenVars>>

TcpListenerStop ==
    /\ ListenerRunning(tl)
    /\ tl' = [tl EXCEPT !.pc = "stopped", !.last = [branch |-> "stop", conn |-> 0]]
    /\ UNCHANGED <<ul, notListenVars>>

\* handle_tcp_conn in its own task: the dial, with `?` on its error.
HandleTcpConnDial(c, dial_ok) ==
    /\ c \in 1..Len(tl.conns)
    /\ tl.conns[c] = "dial"
    /\ tl' = [tl EXCEPT !.conns[c] = IF dial_ok THEN "copy" ELSE "failed",
                        !.last = [branch |-> IF dial_ok THEN "dialed" ELSE "dial_failed",
                                  conn |-> c]]
    /\ UNCHANGED <<ul, notListenVars>>

\* copy_bidirectional returns and both ends are shut down.
HandleTcpConnDone(c) ==
    /\ c \in 1..Len(tl.conns)
    /\ tl.conns[c] = "copy"
    /\ tl' = [tl EXCEPT !.conns[c] = "done", !.last = [branch |-> "closed", conn |-> c]]
    /\ UNCHANGED <<ul, notListenVars>>

\* Both listeners after their bind, in the select of their loop.
ListenersAt(pc, idle) ==
    /\ ul = [pc |-> pc, idle |-> idle, flows |-> FlowsDropped(<<>>), detached |-> {},
             last |-> [branch |-> "none", peer |-> "none"]]
    /\ tl = [pc |-> pc, conns |-> <<>>, last |-> [branch |-> "none", conn |-> 0]]

ListenersIdle == ListenersAt("none", 0)

(***************************************************************************)
(* middleware::WasmMiddleware::apply_impl from the return of the module's  *)
(* function on: the packed return value, the 16-byte output record and the *)
(* two slices it names. A u32 is kept as two 16-bit halves, a u64 sum as   *)
(* the same with a wider upper half; the memory size is a number of 64 KiB *)
(* pages, so its upper half is the page count.                             *)
(***************************************************************************)

U32(hi, lo) == [hi |-> hi, lo |-> lo]

Half == 65536

\* An addition that wraps at 32 bits.
RangeEndWrapping(ptr, len) ==
    [hi |-> (ptr.hi + len.hi + (ptr.lo + len.lo) \div Half) % Half,
     lo |-> (ptr.lo + len.lo) % Half]

\* `(ptr as u64).checked_add(len as u64)`: the sum of two u32 fits a u64.
RangeEnd(ptr, len) ==
    [hi |-> ptr.hi + len.hi + (ptr.lo + len.lo) \div Half,
     lo |-> (ptr.lo + len.lo) % Half]

\* view.data_size() of a memory of `pages` pages.
DataSize(pages) == [hi |-> pages, lo |-> 0]

\* `end > view.data_size()`
ExceedsMemory(end, pages) ==
    end.hi > DataSize(pages).hi \/ (end.hi = DataSize(pages).hi /\ end.lo > DataSize(pages).lo)

\* `len < 16`
RecordTooSmall(len) == len.hi = 0 /\ len.lo < 16

IsZero(u) == u.hi = 0 /\ u.lo = 0

\* The i64 return value by its halves: `out as u64 & 0xffff_ffff` and
\* `out as u64 >> 32`.
WasmOut(ptr, len) == [ptr |-> ptr, len |-> len]

\* out == 0, out == 1, out == -1
OutIsNeedMore(out) == IsZero(out.ptr) /\ IsZero(out.len)
OutIsNoMatch(out) == out.ptr = U32(0, 1) /\ IsZero(out.len)
OutIsFatal(out) == out.ptr = U32(Half - 1, Half - 1) /\ out.len = U32(Half - 1, Half - 1)

\* The output record: four little-endian u32.
OutputRecord(host_ptr, host_len, rw_ptr, rw_len) ==
    [host_ptr |-> host_ptr, host_len |-> host_len, rw_ptr |-> rw_ptr, rw_len |-> rw_len]

\* view.read(ptr, buf) as history.
MemoryRead(ptr, len) == [ptr |-> ptr, len |-> len]

WasmDone(result) == [wm EXCEPT !.pc = "done", !.result = result]

\* The module returned `out` with its memory at `pages` pages: the three codes,
\* then the checks on the record's range.
ApplyImplReturned(out, pages) ==
    /\ wm.pc = "call"
    /\ LET w == [wm EXCEPT !.out = out, !.pages = pages]
       IN  wm' = IF OutIsNeedMore(out) THEN [w EXCEPT !.pc = "done", !.result = "NeedMoreData"]
                 ELSE IF OutIsNoMatch(out) THEN [w EXCEPT !.pc = "done", !.result = "NoMatch"]
                 ELSE IF OutIsFatal(out) THEN [w EXCEPT !.pc = "done", !.result = "Fatal"]
                 ELSE IF RecordTooSmall(out.len)
                 THEN [w EXCEPT !.pc = "done", !.result = "Fatal"]
                 ELSE IF ExceedsMemory(RangeEnd(out.ptr, out.len), pages)
                 THEN [w EXCEPT !.pc = "done", !.result = "Fatal"]
                 ELSE [w EXCEPT !.pc = "record"]
    /\ UNCHANGED notWasmVars

\* `view.read(ptr as u64, &mut header)` and the four fields.
ApplyImplReadRecord(record) ==
    /\ wm.pc = "record"
    /\ wm' = [wm EXCEPT !.pc = "host", !.record = record,
                        !.reads = @ \cup {MemoryRead(wm.out.ptr, U32(0, 16))}]
    /\ UNCHANGED notWasmVars

\* `if host_len > 0 { ... }`; blank says the bytes read trim to nothing.
ApplyImplReadHost(blank) ==
    /\ wm.pc = "host"
    /\ LET rec == wm.record
       IN  wm' = IF IsZero(rec.host_len) THEN [wm EXCEPT !.pc = "rewrite"]
                 ELSE IF ExceedsMemory(RangeEnd(rec.host_ptr, rec.host_len), wm.pages)
                 THEN WasmDone("Fatal")
                 ELSE [wm EXCEPT !.pc = "rewrite", !.host = ~blank,
                                 !.reads = @ \cup {MemoryRead(rec.host_ptr, rec.host_len)}]
    /\ UNCHANGED notWasmVars

\* `if rw_len > 0 { ... }` and the end of the function.
ApplyImplReadRewrite ==
    /\ wm.pc = "rewrite"
    /\ LET rec == wm.record
       IN  wm' = IF IsZero(rec.rw_len)
                 THEN WasmDone(IF wm.host THEN "Ok" ELSE "NoMatch")
                 ELSE IF ExceedsMemory(RangeEnd(rec.rw_ptr, rec.rw_len), wm.pages)
                 THEN WasmDone("Fatal")
                 ELSE [WasmDone("Ok") EXCEPT
                          !.rewrite = TRUE,
                          !.reads = @ \cup {MemoryRead(rec.rw_ptr, rec.rw_len)}]
    /\ UNCHANGED notWasmVars

\* apply_impl after `run.call` was issued.
ApplyImplAt(pc) ==
    wm = [pc |-> pc, out |-> WasmOut(U32(0, 0), U32(0, 0)), pages |-> 0,
          record |-> OutputRecord(U32(0, 0), U32(0, 0), U32(0, 0), U32(0, 0)),
          reads |-> {}, host |-> FALSE, rewrite |-> FALSE, result |-> "none"]

WasmIdle == ApplyImplAt("idle")

(***************************************************************************)
(* middleware::FsWasmMiddlewareProvider: get by name, with the cache.      *)
(***************************************************************************)

Ext_wat == <<".", "w", "a", "t">>

\* Path::join: an absolute right side replaces the left side.
PathJoin(dir, file) ==
    IF file # <<>> /\ Head(file) = "/" THEN file ELSE dir \o <<"/">> \o file

\* wat_path_for: `self.dir.join(format!("{name}.wat"))`
WatPathFor(dir, name) == PathJoin(dir, name \o Ext_wat)

\* The compiled module behind an Arc: `arc` tells one allocation from another.
CompiledModule(arc, name, path) == [arc |-> arc, name |-> name, path |-> path]

GetCall(pc, raw, name) ==
    [pc |-> pc, raw |-> raw, name |-> name, path |-> None, mw |-> None, result |-> None,
     err |-> FALSE]

\* A lookup that never finds the entry.
CacheLookupNothing(cache, name) == None

\* `guard.get(name)` under the lock.
CacheLookup(cache, name) == IF name \in DOMAIN cache THEN Some(cache[name]) ELSE None

\* get up to the release of the first lock: the trimmed name, the empty name
\* refused, a cached module returned.
ProviderGetBegin(t, raw) ==
    /\ gets[t].pc \in {"idle", "done"}
    /\ pv.calls[t] < MaxGets
    /\ LET name == Trim(raw)
           hit == CacheLookup(pv.cache, name)
       IN  gets' = [gets EXCEPT ![t] =
                       IF name = <<>> THEN [GetCall("done", raw, name) EXCEPT !.err = TRUE]
                       ELSE IF hit # None
                       THEN [GetCall("done", raw, name) EXCEPT !.result = hit]
                       ELSE GetCall("compile", raw, name)]
    /\ pv' = [pv EXCEPT !.calls[t] = @ + 1]
    /\ UNCHANGED notProviderVars

\* WasmMiddleware::from_wat_path(name, &wat_path): the file is read and
\* compiled, or `?` returns its error. The lock is not held here.
ProviderGetCompile(t) ==
    /\ gets[t].pc = "compile"
    /\ LET path == WatPathFor(pv.dir, gets[t].name)
       IN  IF path \in pv.files
           THEN /\ gets' = [gets EXCEPT ![t].pc = "insert", ![t].path = Some(path),
                                        ![t].mw = Some(CompiledModule(pv.arcs + 1, gets[t].name, path))]
                /\ pv' = [pv EXCEPT !.arcs = @ + 1,
                                    !.compiled = Append(@, CompiledModule(pv.arcs + 1, gets[t].name, path))]
           ELSE /\ gets' = [gets EXCEPT ![t].pc = "done", ![t].path = Some(path),
                                        ![t].err = TRUE]
                /\ pv' = pv
    /\ UNCHANGED notProviderVars

\* `guard.insert(name.to_string(), mw.clone())` under the second lock, and
\* `Ok(mw)`.
ProviderGetInsert(t) ==
    /\ gets[t].pc = "insert"
    /\ LET mw == Unwrap(gets[t].mw)
       IN  /\ pv' = [pv EXCEPT !.cache = [n \in DOMAIN pv.cache \cup {gets[t].name} |->
                                             IF n = gets[t].name THEN mw ELSE pv.cache[n]]]
           /\ gets' = [gets EXCEPT ![t].pc = "done", ![t].result = Some(mw)]
    /\ UNCHANGED notProviderVars

\* FsWasmMiddlewareProvider::new(dir) over a directory tree with these files.
ProviderNew(dir, files) ==
    /\ pv = [dir |-> dir, files |-> files, cache |-> [n \in {} |-> 0], arcs |-> 0,
             compiled |-> <<>>, calls |-> [t \in ProviderThreads |-> 0]]
    /\ gets = [t \in ProviderThreads |-> GetCall("idle", <<>>, <<>>)]

ProviderIdle == ProviderNew(<<>>, {})

(***************************************************************************)
(* tunnel::protocol::write_varint and read_varint, proxy::read_varint. An  *)
(* i32 is kept by its 32 bits, as two 16-bit halves.                       *)
(***************************************************************************)

RECURSIVE Exp2(_)
Exp2(n) == IF n = 0 THEN 1 ELSE 2 * Exp2(n - 1)

\* `(v & 0x7f) as u8`
LowSeven(v) == v.lo % 128

\* `((v as u32) >> 7) as i32`
ShiftRightSeven(v) == U32(v.hi \div 128, v.lo \div 128 + (v.hi % 128) * 512)

\* `value << s` on an i32 for s below 32: the bits pushed past bit 31 are lost.
ShiftLeft(value, s) ==
    IF s < 16
    THEN U32((value * Exp2(s)) \div Half, (value * Exp2(s)) % Half)
    ELSE U32((value * Exp2(s - 16)) % Half, 0)

\* `result |= ...` where the bits set on the right are clear on the left.
OrDisjoint(a, b) == U32(a.hi + b.hi, a.lo + b.lo)

\* A limit that leaves no room for the fifth byte.
TooManyBytesAtFive(num_read) == num_read >= 5

\* `if num_read > 5`
TooManyBytes(num_read) == num_read > 5

\* One turn of the loop of write_varint.
WriteVarintByte ==
    /\ vi.pc = "write"
    /\ LET rest == ShiftRightSeven(vi.rest)
           temp == IF IsZero(rest) THEN LowSeven(vi.rest) ELSE LowSeven(vi.rest) + 128
       IN  vi' = [vi EXCEPT !.rest = rest, !.bytes = Append(@, temp),
                            !.pc = IF IsZero(rest) THEN "written" ELSE "write"]
    /\ UNCHANGED notVarintVars

\* The bytes reach a reader: read_varint of tunnel::protocol on a stream, or
\* read_varint of proxy on a buffer from index 0.
ReadVarintBegin(reader) ==
    /\ vi.pc = "written"
    /\ vi' = [vi EXCEPT !.pc = "read", !.reader = reader]
    /\ UNCHANGED notVarintVars

\* One turn of the loop of either read_varint. At the sixth byte the shift
\* amount is 35: a build with overflow checks panics there, any other goes on
\* to the error return.
ReadVarintByte(overflow_checks) ==
    /\ vi.pc = "read"
    /\ IF vi.i >= Len(vi.bytes)
       THEN vi' = [vi EXCEPT !.pc = "done",
                             !.out = [tag |-> IF vi.reader = "stream" THEN "Err" ELSE "None",
                                      value |-> U32(0, 0), n |-> 0]]
       ELSE LET read == vi.bytes[vi.i + 1]
                value == read % 128
                num_read == vi.num_read + 1
            IN  IF 7 * vi.num_read >= 32 /\ overflow_checks
                THEN vi' = [vi EXCEPT !.pc = "done",
                                      !.out = [tag |-> "panic", value |-> U32(0, 0), n |-> 0]]
                ELSE IF TooManyBytes(num_read)
                THEN vi' = [vi EXCEPT !.pc = "done", !.i = @ + 1, !.num_read = num_read,
                                      !.out = [tag |-> IF vi.reader = "stream" THEN "Err" ELSE "None",
                                               value |-> U32(0, 0), n |-> 0]]
                ELSE LET result == OrDisjoint(vi.result, ShiftLeft(value, 7 * vi.num_read))
                     IN  vi' = [vi EXCEPT
                                   !.i = @ + 1, !.num_read = num_read, !.result = result,
                                   !.pc = IF read < 128 THEN "done" ELSE "read",
                                   !.out = IF read < 128
                                           THEN [tag |-> "Ok", value |-> result,
                                                 n |-> IF vi.reader = "buf" THEN num_read ELSE 0]
                                           ELSE @]
    /\ UNCHANGED notVarintVars

VarintCall(pc, source, v, bytes) ==
    [pc |-> pc, source |-> source, v |-> v, rest |-> v, bytes |-> bytes, reader |-> "none",
     i |-> 0, num_read |-> 0, result |-> U32(0, 0),
     out |-> [tag |-> "none", value |-> U32(0, 0), n |-> 0]]

\* write_varint called with v.
WriteVarintCall(v) == vi = VarintCall("write", "value", v, <<>>)

\* Bytes that did not come from write_varint are about to be read.
WireBytes(bytes) == vi = VarintCall("written", "wire", U32(0, 0), bytes)

VarintIdle == vi = VarintCall("idle", "none", U32(0, 0), <<>>)

(***************************************************************************)
(* The manager under concurrent register / unregister calls.               *)
(***************************************************************************)
C1 == <<"c", "1">>
C2 == <<"c", "2">>
C3 == <<"c", "3">>
ClientIds == {C1, C2, C3}
SvcA == <<"a">>
SvcB == <<"b">>

PlainService(name) == RegisteredService(name, <<>>, <<>>, FALSE, <<>>, <<>>)

\* Service lists sent by clients: names come padded and may be blank.
MgrServiceLists ==
    { <<>>,
      <<PlainService(<<" ">>), PlainService(SvcA)>>,
      <<PlainService(<<" ", "b">>)>>,
      <<PlainService(<<"a", " ">>), PlainService(SvcB)>> }

MgrUnregisterIds == ClientIds \cup {<<" ">> \o C1, <<>>}

MgrNext ==
    \/ \E id \in ClientIds, services \in MgrServiceLists, started \in 0..MaxTime :
           RegisterClient(id, services, started)
    \/ \E rawid \in MgrUnregisterIds : UnregisterClient(rawid)
    \/ Tick

ChainIdle ==
    /\ chMods = <<>>
    /\ chPrelude = <<>>
    /\ chResult = None

RouterIdle == RouterNew(<<>>)

MgrSpecInit == MgrInit /\ ChainIdle /\ RouterIdle /\ StatusCacheNew /\ AutoListenerNew /\ RoutingIdle /\ DatagramConnNew /\ RegIdle /\ UdpIdle /\ SrvIdle /\ ClientIdle /\ ShutdownIdle /\ ReloadIdle /\ ListenersIdle /\ WasmIdle /\ ProviderIdle /\ VarintIdle /\ DialIdle /\ RewriteIdle /\ TunnelLoopIdle /\ StatusPathIdle /\ AutoRunIdle

SpecManager == MgrSpecInit /\ [][MgrNext]_vars

\* Dials by pinned id (plain, padded, unknown) and by primary, for names as
\* registered, padded, unknown and blank.
DialPinned == {None, Some(C1), Some(C2), Some(<<" ">> \o C1), Some(<<"c", "9">>)}
DialServices == {SvcA, SvcB, <<" ", "a">>, <<"c">>, <<" ">>}
DialKinds == {"tcp", "udp"}
DialClientIds == {C1, C2}
DialServiceLists == {<<>>, <<PlainService(SvcA)>>, <<PlainService(<<"a", " ">>), PlainService(SvcB)>>}

DialNext ==
    \/ \E id \in DialClientIds, services \in DialServiceLists, started \in 0..MaxTime :
           RegisterClient(id, services, started)
    \/ \E id \in DialClientIds : UnregisterClient(id)
    \/ Tick
    \/ \E kind \in DialKinds, pinned \in DialPinned, service \in DialServices :
           DialLookup(kind, pinned, service)
    \/ \E opened \in BOOLEAN, written \in BOOLEAN : DialOpen(opened, written)
    \/ DialReturn

SpecDial == MgrSpecInit /\ [][DialNext]_vars

SelectedUpstreams == {0, 2}

RewriteNext == ChainRewriteStep \/ ChainRewriteReturn

RewriteSpecInit ==
    /\ \E mods \in SeqsUpTo(Modules, MaxChain), prelude \in SeqsUpTo(Bytes, MaxPrelude),
          selected_upstream \in SelectedUpstreams :
           rwc = RewriteCall("loop", mods, prelude, selected_upstream)
    /\ MgrInit /\ ChainIdle /\ RouterIdle /\ StatusCacheNew /\ AutoListenerNew
    /\ RoutingIdle /\ DatagramConnNew /\ RegIdle /\ UdpIdle /\ SrvIdle /\ ClientIdle /\ ShutdownIdle /\ ReloadIdle /\ ListenersIdle /\ WasmIdle /\ ProviderIdle /\ VarintIdle /\ DialIdle /\ TunnelLoopIdle /\ StatusPathIdle /\ AutoRunIdle

SpecRewrite == RewriteSpecInit /\ [][RewriteNext]_vars

ChainNext == ChainParseCall

ChainSpecInit == ChainInit /\ MgrInit /\ RouterIdle /\ StatusCacheNew /\ AutoListenerNew /\ RoutingIdle /\ DatagramConnNew /\ RegIdle /\ UdpIdle /\ SrvIdle /\ ClientIdle /\ ShutdownIdle /\ ReloadIdle /\ ListenersIdle /\ WasmIdle /\ ProviderIdle /\ VarintIdle /\ DialIdle /\ RewriteIdle /\ TunnelLoopIdle /\ StatusPathIdle /\ AutoRunIdle

SpecChain == ChainSpecInit /\ [][ChainNext]_vars

(***************************************************************************)
(* The router under resolutions concurrent with reloads.                   *)
(***************************************************************************)
Host_a_x == <<"a", ".", "x">>
Up_A == <<"A">>
Up_B == <<"B">>
Up_C == <<"C">>

\* A table whose first routes cannot win on a prelude: a chain that always
\* fails, then a chain whose host matches none of the route's own patterns.
RoutesOne ==
    << RouteConfig(<<Host_a_x>>, <<Up_A>>,
                   <<"s", "e", "q", "u", "e", "n", "t", "i", "a", "l">>, <<"trap">>),
       RouteConfig(<<<<"q", ".", "x">>>>, <<Up_B>>, <<>>, <<"mc">>),
       RouteConfig(<<<<" ">>, <<"*", ".", "X", " ">>>>,
                   <<Up_A, <<" ">>, <<"$", "1">>, <<" ", "C">>>>,
                   <<" ", "R", "o", "u", "n", "d", "_", " ", "r", "o", "b", "i", "n">>,
                   <<"strip", "mc">>),
       RouteConfig(<<<<"?", ".", "x">>>>, <<<<"$", "1", ".", "u", "p">>, Up_B>>,
                   <<"R", "A", "n", "d", "o", "m">>, <<"sni">>) >>

\* A reload: two routes that do not compile, a two-star pattern, a pattern
\* with ten groups.
RoutesTwo ==
    << RouteConfig(<<<<" ">>>>, <<Up_A>>, <<>>, <<"mc">>),
       RouteConfig(<<<<"*", ".", "x">>>>, <<Up_A, Up_B>>,
                   <<"r", "o", "u", "n", "d", "r", "o", "b", "i", "n">>, <<"sni">>),
       RouteConfig(<<<<"b", ".", "x">>, <<"*", ".", "*">>>>, <<<<"$", "2">>, <<"$", "1">>>>,
                   <<"o", "t", "h", "e", "r">>, <<"mc">>),
       RouteConfig(<<Host_a_x>>, <<<<" ">>>>, <<>>, <<"mc">>),
       RouteConfig(<<<<"?", "?", "?", "?", "?", "?", "?", "?", "?", "?">>>>,
                   <<<<"$", "1", "0", "$", "1">>>>, <<>>, <<"trap">>) >>

RouteTables == {RoutesOne, RoutesTwo, <<>>}

RouterPreludes == {<<1>>, <<1, 1>>, <<1, 2>>, <<2, 1>>, <<3, 1>>, <<3, 1, 2>>, <<0, 0>>}

RouterHosts ==
    { <<" ", "A", ".", "X">>,
      <<"a", ".", "$", "1">>,
      <<"a", "b", "c", "d", "e", "f", "g", "h", "i", "j">>,
      <<"q">>,
      <<" ">> }

RouterNext ==
    \/ \E routes \in RouteTables : RouterUpdate(routes)
    \/ \E r \in Resolvers, prelude \in RouterPreludes : ResolvePreludeBegin(r, prelude)
    \/ \E r \in Resolvers : ResolvePreludeRoute(r)
    \/ \E r \in Resolvers, rawhost \in RouterHosts : ResolveBegin(r, rawhost)
    \/ \E r \in Resolvers : ResolveRoute(r)

RouterSpecInit == RouterNew(RoutesOne) /\ MgrInit /\ ChainIdle /\ StatusCacheNew /\ AutoListenerNew /\ RoutingIdle /\ DatagramConnNew /\ RegIdle /\ UdpIdle /\ SrvIdle /\ ClientIdle /\ ShutdownIdle /\ ReloadIdle /\ ListenersIdle /\ WasmIdle /\ ProviderIdle /\ VarintIdle /\ DialIdle /\ RewriteIdle /\ TunnelLoopIdle /\ StatusPathIdle /\ AutoRunIdle

SpecRouter == RouterSpecInit /\ [][RouterNext]_vars

(***************************************************************************)
(* Reloads against a router that is resolving.                             *)
(***************************************************************************)

ReloadStartConfig == LoadedConfig(RoutesOne, RoutingRuntime(2, FALSE), TRUE, 1)

\* The file at the configured path when a reload reads it.
ReloadFiles ==
    { ConfigLoadErr,
      LoadedConfig(RoutesTwo, RoutingRuntime(1, TRUE), TRUE, 2),
      LoadedConfig(RoutesOne, RoutingRuntime(0, TRUE), FALSE, 1),
      LoadedConfig(<<>>, RoutingRuntime(1, FALSE), TRUE, 1) }

\* The middleware directory when the chains are built.
ReloadDirs == {Modules, Modules \ {"sni"}, {}}

ReloadHosts == {<<" ", "A", ".", "X">>, <<"q">>}

ReloadPreludes == {<<1, 1>>, <<3, 1, 2>>}

ReloadNext ==
    \/ \E file \in ReloadFiles : ApplyReloadLoad(file)
    \/ \E dir \in ReloadDirs : ApplyReloadBuild(dir)
    \/ ApplyReloadRuntime
    \/ \E r \in Resolvers, prelude \in ReloadPreludes : ResolvePreludeBegin(r, prelude)
    \/ \E r \in Resolvers : ResolvePreludeRoute(r)
    \/ \E r \in Resolvers, rawhost \in ReloadHosts : ResolveBegin(r, rawhost)
    \/ \E r \in Resolvers : ResolveRoute(r)

ReloadSpecInit == RouterNew(RoutesOne) /\ ReloadLoopNew(ReloadStartConfig) /\ MgrInit /\ ChainIdle /\ StatusCacheNew /\ AutoListenerNew /\ RoutingIdle /\ DatagramConnNew /\ RegIdle /\ UdpIdle /\ SrvIdle /\ ClientIdle /\ ShutdownIdle /\ ListenersIdle /\ WasmIdle /\ ProviderIdle /\ VarintIdle /\ DialIdle /\ RewriteIdle /\ TunnelLoopIdle /\ StatusPathIdle /\ AutoRunIdle

SpecReload == ReloadSpecInit /\ [][ReloadNext]_vars

(***************************************************************************)
(* One UDP and one TCP auto listener with two peers.                       *)
(***************************************************************************)

ListenDatagramLens == {1, MAX_DATAGRAM_BYTES + 1}

ListenIdleTimeouts == {0, 1}

ListenNext ==
    \/ \E peer \in Peers, n \in ListenDatagramLens, dial_ok \in BOOLEAN, write_ok \in BOOLEAN :
          UdpListenerRecv(peer, n, dial_ok, write_ok)
    \/ UdpListenerRecvErr
    \/ \E dead \in SUBSET Peers : UdpListenerTick(dead)
    \/ UdpListenerStop
    \/ \E peer \in Peers : UdpFlowTaskEnded(peer)
    \/ TcpListenerAccept
    \/ TcpListenerAcceptErr
    \/ TcpListenerStop
    \/ \E c \in 1..MaxConns, dial_ok \in BOOLEAN : HandleTcpConnDial(c, dial_ok)
    \/ \E c \in 1..MaxConns : HandleTcpConnDone(c)

ListenSpecInit ==
    /\ \E idle \in ListenIdleTimeouts : ListenersAt("select", idle)
    /\ MgrInit /\ ChainIdle /\ RouterIdle /\ StatusCacheNew /\ AutoListenerNew
    /\ RoutingIdle /\ DatagramConnNew /\ RegIdle /\ UdpIdle /\ SrvIdle /\ ClientIdle /\ ShutdownIdle /\ ReloadIdle /\ WasmIdle /\ ProviderIdle /\ VarintIdle /\ DialIdle /\ RewriteIdle /\ TunnelLoopIdle /\ StatusPathIdle /\ AutoRunIdle

SpecListen == ListenSpecInit /\ [][ListenNext]_vars

(***************************************************************************)
(* apply_impl over return values, records and memory sizes at the edges.   *)
(***************************************************************************)

\* Where a range starts: 0, 1, the last 16 bytes of four pages, the end of
\* four pages, the last 16 bytes of the address space, its last byte.
WasmPtrs ==
    { U32(0, 0), U32(0, 1), U32(3, Half - 16), U32(4, 0),
      U32(Half - 1, Half - 16), U32(Half - 1, Half - 1) }

\* How long it is: nothing, too short for a record, a record, a byte more,
\* the largest u32.
WasmLens == { U32(0, 0), U32(0, 15), U32(0, 16), U32(0, 17), U32(Half - 1, Half - 1) }

WasmSlicePtrs == { U32(0, 0), U32(3, Half - 16), U32(Half - 1, Half - 16) }

WasmSliceLens == { U32(0, 0), U32(0, 16), U32(0, 17), U32(Half - 1, Half - 1) }

\* The host grows the memory to four pages before the call; 65536 pages is
\* the whole 32-bit address space.
WasmPages == {4, Half}

WasmNext ==
    \/ \E ptr \in WasmPtrs, len \in WasmLens, pages \in WasmPages :
          ApplyImplReturned(WasmOut(ptr, len), pages)
    \/ \E host_ptr \in WasmSlicePtrs, host_len \in WasmSliceLens,
          rw_ptr \in WasmSlicePtrs, rw_len \in WasmSliceLens :
          ApplyImplReadRecord(OutputRecord(host_ptr, host_len, rw_ptr, rw_len))
    \/ \E blank \in BOOLEAN : ApplyImplReadHost(blank)
    \/ ApplyImplReadRewrite

WasmSpecInit ==
    /\ ApplyImplAt("call")
    /\ MgrInit /\ ChainIdle /\ RouterIdle /\ StatusCacheNew /\ AutoListenerNew
    /\ RoutingIdle /\ DatagramConnNew /\ RegIdle /\ UdpIdle /\ SrvIdle /\ ClientIdle /\ ShutdownIdle /\ ReloadIdle /\ ListenersIdle /\ ProviderIdle /\ VarintIdle /\ DialIdle /\ RewriteIdle /\ TunnelLoopIdle /\ StatusPathIdle /\ AutoRunIdle

SpecWasm == WasmSpecInit /\ [][WasmNext]_vars

(***************************************************************************)
(* Two threads calling get on one provider.                                *)
(***************************************************************************)

MiddlewareDir == <<"d">>

\* The names asked for: plain, padded, with a dash, with an underscore, with a
\* dot, with a separator, leaving the directory, absolute, blank.
ProviderNames ==
    { <<"m">>, <<" ", "m", " ">>, <<"a", "-", "b">>, <<"a", "_", "b">>, <<"a", ".", "b">>,
      <<"s", "/", "m">>, <<".", ".", "/", "x">>, <<"/", "e">>, <<" ">> }

\* The .wat files that exist and compile, inside the directory and outside.
ProviderFiles ==
    { <<"d", "/", "m">> \o Ext_wat, <<"d", "/", "a", "_", "b">> \o Ext_wat,
      <<"d", "/", "a", ".", "b">> \o Ext_wat, <<"d", "/", "s", "/", "m">> \o Ext_wat,
      <<"d", "/", ".", ".", "/", "x">> \o Ext_wat, <<"/", "e">> \o Ext_wat }

ProviderNext ==
    \/ \E t \in ProviderThreads, raw \in ProviderNames : ProviderGetBegin(t, raw)
    \/ \E t \in ProviderThreads : ProviderGetCompile(t)
    \/ \E t \in ProviderThreads : ProviderGetInsert(t)

ProviderSpecInit ==
    /\ ProviderNew(MiddlewareDir, ProviderFiles)
    /\ MgrInit /\ ChainIdle /\ RouterIdle /\ StatusCacheNew /\ AutoListenerNew
    /\ RoutingIdle /\ DatagramConnNew /\ RegIdle /\ UdpIdle /\ SrvIdle /\ ClientIdle /\ ShutdownIdle /\ ReloadIdle /\ ListenersIdle /\ WasmIdle /\ VarintIdle /\ DialIdle /\ RewriteIdle /\ TunnelLoopIdle /\ StatusPathIdle /\ AutoRunIdle

SpecProvider == ProviderSpecInit /\ [][ProviderNext]_vars

(***************************************************************************)
(* Values at every power of two through both readers, and foreign bytes.   *)
(***************************************************************************)

\* 2^k and 2^k - 1 for every bit k of an i32; from 2^31 on the value is
\* negative as an i32.
VarintValues ==
    {U32(0, Exp2(k)) : k \in 0..15} \cup {U32(Exp2(k), 0) : k \in 0..15}
    \cup {U32(0, Exp2(k) - 1) : k \in 0..16} \cup {U32(Exp2(k) - 1, Half - 1) : k \in 1..16}

\* Six bytes, five bytes with bits past bit 31, a sequence that ends early,
\* nothing at all.
VarintWires ==
    { <<255, 255, 255, 255, 255, 1>>, <<255, 255, 255, 255, 127>>, <<128>>, <<>> }

VarintNext ==
    \/ WriteVarintByte
    \/ \E reader \in {"stream", "buf"} : ReadVarintBegin(reader)
    \/ \E overflow_checks \in BOOLEAN : ReadVarintByte(overflow_checks)

VarintSpecInit ==
    /\ \/ \E v \in VarintValues : WriteVarintCall(v)
       \/ \E bytes \in VarintWires : WireBytes(bytes)
    /\ MgrInit /\ ChainIdle /\ RouterIdle /\ StatusCacheNew /\ AutoListenerNew
    /\ RoutingIdle /\ DatagramConnNew /\ RegIdle /\ UdpIdle /\ SrvIdle /\ ClientIdle /\ ShutdownIdle /\ ReloadIdle /\ ListenersIdle /\ WasmIdle /\ ProviderIdle /\ DialIdle /\ RewriteIdle /\ TunnelLoopIdle /\ StatusPathIdle /\ AutoRunIdle

SpecVarint == VarintSpecInit /\ [][VarintNext]_vars

(***************************************************************************)
(* The auto listener reconciling against a changing manager.               *)
(***************************************************************************)
Addr1 == <<":", "1">>
Addr2 == <<":", "2">>
Str_udp == <<"u", "d", "p">>

\* What clients register: a service to listen for, with the protocol left to
\* its default; the same name moved to UDP next to a route-only service that
\* names an address; a padded address and a service without one.
AutoServiceLists ==
    { <<RegisteredService(SvcA, <<>>, <<>>, FALSE, Addr1, <<>>)>>,
      <<RegisteredService(SvcA, <<" ", "U", "D", "P">>, <<>>, FALSE, Addr1, <<>>),
        RegisteredService(SvcB, <<>>, <<>>, TRUE, Addr2, <<>>)>>,
      <<RegisteredService(SvcA, <<>>, <<>>, FALSE, <<" ">>, <<>>),
        RegisteredService(SvcB, Str_udp, <<>>, FALSE, <<" ", ":", "2">>, <<>>)>> }

AutoClientIds == {C1, C2}

\* The first client registers any of the lists, the second the first service.
AutoRegistrations ==
    {[id |-> C1, services |-> l] : l \in AutoServiceLists}
        \cup {[id |-> C2, services |-> <<RegisteredService(SvcA, <<>>, <<>>, FALSE, Addr1, <<>>)>>]}

AutoNext ==
    \/ \E reg \in AutoRegistrations : RegisterClient(reg.id, reg.services, 0)
    \/ \E rawid \in AutoClientIds : UnregisterClient(rawid)
    \/ ReconcileSnapshot
    \/ ReconcileApply

AutoSpecInit == AutoListenerNew /\ MgrInit /\ ChainIdle /\ RouterIdle /\ StatusCacheNew /\ RoutingIdle /\ DatagramConnNew /\ RegIdle /\ UdpIdle /\ SrvIdle /\ ClientIdle /\ ShutdownIdle /\ ReloadIdle /\ ListenersIdle /\ WasmIdle /\ ProviderIdle /\ VarintIdle /\ DialIdle /\ RewriteIdle /\ TunnelLoopIdle /\ StatusPathIdle /\ AutoRunIdle

SpecAuto == AutoSpecInit /\ [][AutoNext]_vars

\* The run loop next to a manager whose clients come and go, while the
\* shutdown watch stays false.
AutoRunNext ==
    \/ \E reg \in AutoRegistrations : WatchedRegister(reg.id, reg.services, 0)
    \/ \E rawid \in AutoClientIds : WatchedUnregister(rawid)
    \/ WatchedBump
    \/ AutoRunSubscribe
    \/ AutoRunSnapshot
    \/ AutoRunApply
    \/ AutoRunChanged

AutoRunSpecInit ==
    /\ wch = AutoRun("start", FALSE)
    /\ AutoListenerNew /\ MgrInit /\ ChainIdle /\ RouterIdle /\ StatusCacheNew /\ RoutingIdle /\ DatagramConnNew
    /\ RegIdle /\ UdpIdle /\ SrvIdle /\ ClientIdle /\ ShutdownIdle /\ ReloadIdle /\ ListenersIdle /\ WasmIdle /\ ProviderIdle /\ VarintIdle /\ DialIdle /\ RewriteIdle /\ TunnelLoopIdle /\ StatusPathIdle

SpecAutoRun == AutoRunSpecInit /\ [][AutoRunNext]_vars

\* run is a task of its own, polled whenever its select! or a lock it waits
\* for is ready; a call that dropped the write lock goes on to bump_changed.
SpecAutoRunFair ==
    /\ SpecAutoRun
    /\ WF_vars(AutoRunSubscribe \/ AutoRunSnapshot \/ AutoRunApply \/ AutoRunChanged)
    /\ WF_vars(WatchedBump)

(***************************************************************************)
(* The status cache under concurrent status requests.                      *)
(***************************************************************************)
CacheKeys ==
    { StatusCacheKey(<<"u", "1">>, 7), StatusCacheKey(<<"u", "2">>, 7) }

CacheTtls == {0, 1}

\* What the upstream may answer to a status dial: one of two frames, or nothing.
LoadResponses == {LoadOk(<<1>>), LoadOk(<<2>>), LoadErr}

CacheNext ==
    \/ \E q \in Requesters, key \in CacheKeys, ttl \in CacheTtls : StatusRequest(q, key, ttl)
    \/ \E q \in Requesters : HandlerGet(q)
    \/ \E q \in Requesters : GetOrLoadGet(q)
    \/ \E q \in Requesters : JoinOrCreate(q)
    \/ \E q \in Requesters : WaiterIsDone(q)
    \/ \E q \in Requesters : WaiterNotified(q)
    \/ \E q \in Requesters : WaiterWoken(q)
    \/ \E q \in Requesters : WaiterReadResult(q)
    \/ \E q \in Requesters, response \in LoadResponses : LoaderLoad(q, response)
    \/ \E q \in Requesters : LoaderSet(q)
    \/ \E q \in Requesters : LoaderPublish(q)
    \/ \E q \in Requesters : LoaderFinish(q)
    \/ \E q \in Requesters : LoaderRemove(q)
    \/ ClockTick

CacheSpecInit == StatusCacheNew /\ MgrInit /\ ChainIdle /\ RouterIdle /\ AutoListenerNew /\ RoutingIdle /\ DatagramConnNew /\ RegIdle /\ UdpIdle /\ SrvIdle /\ ClientIdle /\ ShutdownIdle /\ ReloadIdle /\ ListenersIdle /\ WasmIdle /\ ProviderIdle /\ VarintIdle /\ DialIdle /\ RewriteIdle /\ TunnelLoopIdle /\ StatusPathIdle /\ AutoRunIdle

SpecCache == CacheSpecInit /\ [][CacheNext]_vars

\* The steps a request takes by itself once it has begun; the load is among
\* them (the status dial runs under a timeout).
RequestStep(q) ==
    \/ HandlerGet(q)
    \/ GetOrLoadGet(q)
    \/ JoinOrCreate(q)
    \/ WaiterIsDone(q)
    \/ WaiterNotified(q)
    \/ WaiterWoken(q)
    \/ WaiterReadResult(q)
    \/ \E response \in LoadResponses : LoaderLoad(q, response)
    \/ LoaderSet(q)
    \/ LoaderPublish(q)
    \/ LoaderFinish(q)
    \/ LoaderRemove(q)

\* Every request is a task tokio keeps polling, none is cancelled, and the
\* locks are fair: a request that can take a step does.
SpecCacheFair ==
    /\ SpecCache
    /\ \A q \in Requesters : WF_vars(RequestStep(q))

Provides(cl, cid, n) == cid \in DOMAIN cl /\ n \in DOMAIN cl[cid].services

\* C1: every service name of a surviving client has a primary, and that primary
\* is a surviving client that provides the name.
C1_PrimaryCoversSurvivors ==
    \A cid \in DOMAIN clients : \A n \in DOMAIN clients[cid].services :
        /\ n \in DOMAIN primary
        /\ Provides(clients, primary[n], n)

\* An unregister removed the primary of a name that another client still provides.
C1_Witness ==
    /\ mgrLast.op = "unregister"
    /\ \E n \in mgrLast.owned : \E cid \in DOMAIN clients : Provides(clients, cid, n)

\* The step is a register_client or unregister_client call for client c: every
\* manager call records itself in mgrLast and leaves the clock alone.
TouchesClient(c) == now' = now /\ mgrLast'.id = c
Unregistered(id) == now' = now /\ mgrLast'.op = "unregister" /\ mgrLast'.id = id

\* C8: first writer wins: a register_client call for another id leaves
\* primary[name] = c as it is, and c stays primary for the name through every
\* step that neither unregisters nor replaces c.
C8_FirstWriterWins ==
    [][\A n \in DOMAIN primary :
          ~TouchesClient(primary[n]) => (n \in DOMAIN primary' /\ primary'[n] = primary[n])]_vars

\* A client registered a name whose primary is, and stays, an earlier client.
C8_Witness ==
    /\ mgrLast.op = "register"
    /\ \E n \in DOMAIN clients[mgrLast.id].services : primary[n] # mgrLast.id

\* C9: unregister_client(id) hands every name id was primary for to a surviving
\* provider with the oldest `started`, or drops the name when nobody provides it;
\* the primaries of other clients are unchanged.
C9_UnregisterPromotesOldest ==
    [][\A id \in ClientIds : Unregistered(id) =>
          LET Survivors(n) == {d \in DOMAIN clients \ {id} : n \in DOMAIN clients[d].services}
          IN  /\ \A n \in DOMAIN primary :
                    IF primary[n] = id
                    THEN IF Survivors(n) = {}
                         THEN n \notin DOMAIN primary'
                         ELSE /\ n \in DOMAIN primary'
                              /\ primary'[n] \in Survivors(n)
                              /\ \A d \in Survivors(n) :
                                    clients[primary'[n]].started <= clients[d].started
                    ELSE n \in DOMAIN primary' /\ primary'[n] = primary[n]
              /\ DOMAIN primary' \subseteq DOMAIN primary]_vars

\* The removed primary left two providers of different age and the older one won.
C9_Witness ==
    /\ mgrLast.op = "unregister"
    /\ \E n \in mgrLast.owned : \E d \in DOMAIN clients :
          /\ Provides(clients, d, n)
          /\ n \in DOMAIN primary
          /\ clients[primary[n]].started < clients[d].started

(***************************************************************************)
(* One routed connection, against a manager whose client comes and goes.   *)
(***************************************************************************)
\* A route to a tunnel service with fallbacks, and a wildcard route whose
\* candidates start at a random position.
RoutingRoutes ==
    << RouteConfig(<<Host_a_x>>,
                   << <<" ">> \o Str_tunnel \o <<" ", "a", " ">>, Up_A, Str_tunnel >>,
                   <<>>, <<"mc">>),
       RouteConfig(<<<<"*", ".", "x">>>>,
                   << <<"$", "1", ":", "1">>, <<"[", "B", "]">>, Str_tunnel \o <<"q">> >>,
                   <<"r", "a", "n", "d", "o", "m">>, <<"sni">>) >>

\* What clients send: a handshake alone, a handshake with the bytes after it,
\* half a handshake, and streams no route parses.
ClientStreams == {<<1, 1>>, <<1, 1, 0>>, <<2, 2, 0>>, <<1>>, <<0, 0>>, <<1, 0>>}

RoutingRuntimes == {RoutingRuntime(m, p) : m \in {0, 1, 2}, p \in BOOLEAN}

\* handle_routing entered on a fresh connection.
RoutingAccept ==
    /\ cli \in {[pending |-> s, fin |-> FALSE] : s \in ClientStreams}
    /\ hr \in {HandlerStart(rt) : rt \in RoutingRuntimes}

RoutingDraws == 0..2

RoutingNext ==
    \/ \E n \in 1..MaxRead, drawn \in RoutingDraws : RoutingRead(n, drawn)
    \/ RoutingOverflow
    \/ RoutingEof
    \/ RoutingAbort
    \/ ClientFin
    \/ \E connected \in BOOLEAN : RoutingDial(connected)
    \/ \E header_ok \in BOOLEAN, k \in 0..MaxPrelude : RoutingForward(header_ok, k)
    \/ RoutingSpliceEnd
    \/ RegisterClient(C1, <<PlainService(SvcA)>>, 0)
    \/ UnregisterClient(C1)

RoutingSpecInit ==
    RoutingAccept /\ RouterNew(RoutingRoutes) /\ MgrInit /\ ChainIdle /\ StatusCacheNew /\ AutoListenerNew /\ DatagramConnNew /\ RegIdle /\ UdpIdle /\ SrvIdle /\ ClientIdle /\ ShutdownIdle /\ ReloadIdle /\ ListenersIdle /\ WasmIdle /\ ProviderIdle /\ VarintIdle /\ DialIdle /\ RewriteIdle /\ TunnelLoopIdle /\ StatusPathIdle /\ AutoRunIdle

SpecRouting == RoutingSpecInit /\ [][RoutingNext]_vars

(***************************************************************************)
(* A framed stream with a writer and a reader.                             *)
(***************************************************************************)
\* Payloads of every length up to one past the limit, in two fillings; their
\* bytes can be mistaken for a length prefix when the stream loses alignment.
DgPayloads ==
    UNION {{[i \in 1..k |-> 0], [i \in 1..k |-> k + 1 - i]} : k \in 0..(MAX_DATAGRAM_BYTES + 1)}

\* The lengths of the buffers callers pass to read_datagram.
DgBuffers == 0..MAX_DATAGRAM_BYTES

DgNext ==
    \/ \E payload \in DgPayloads : DgWrite(payload)
    \/ \E out_len \in DgBuffers : DgRead(out_len)

DgSpecInit ==
    DatagramConnNew /\ MgrInit /\ ChainIdle /\ RouterIdle /\ StatusCacheNew /\ AutoListenerNew /\ RoutingIdle /\ RegIdle /\ UdpIdle /\ SrvIdle /\ ClientIdle /\ ShutdownIdle /\ ReloadIdle /\ ListenersIdle /\ WasmIdle /\ ProviderIdle /\ VarintIdle /\ DialIdle /\ RewriteIdle /\ TunnelLoopIdle /\ StatusPathIdle /\ AutoRunIdle

SpecDatagram == DgSpecInit /\ [][DgNext]_vars

\* Frames the tunnel peer sends (their bytes can be mistaken for a length)
\* and datagrams of the source peer.
TunPayloads == {<<>>, <<0>>, <<1>>, <<0, 0>>, <<2, 1>>}
TunInboundPayloads == {<<1>>}

TunNext ==
    \/ \E payload \in TunPayloads : TunPeerWrite(payload)
    \/ \E payload \in TunInboundPayloads : TunInbound(payload)
    \/ \E k \in 1..(4 + MAX_DATAGRAM_BYTES) : TunPollRead(k)
    \/ TunRecv

TunSpecInit ==
    /\ tu = TunnelLoop("select")
    /\ DatagramConnNew /\ MgrInit /\ ChainIdle /\ RouterIdle /\ StatusCacheNew /\ AutoListenerNew
    /\ RoutingIdle /\ RegIdle /\ UdpIdle /\ SrvIdle /\ ClientIdle /\ ShutdownIdle /\ ReloadIdle /\ ListenersIdle /\ WasmIdle /\ ProviderIdle /\ VarintIdle /\ DialIdle /\ RewriteIdle /\ StatusPathIdle /\ AutoRunIdle

SpecTunnelLoop == TunSpecInit /\ [][TunNext]_vars

\* Bytes of status traffic: packet lengths and ids 0 to 2, and a VarInt
\* continuation byte.
McBytes == {0, 1, 2, 128}
Handshake == <<9, 9>>

StatusNext ==
    \/ \E served \in BOOLEAN : StatusDecode(served)
    \/ \E k \in 1..MaxClientBytes : StatusRead(k)
    \/ StatusReadEnds

StatusSpecInit ==
    /\ \E post_handshake \in SeqsUpTo(McBytes, 1), pending \in SeqsUpTo(McBytes, MaxClientBytes) :
           sp = StatusPath("decode", Handshake, post_handshake, pending)
    /\ tu = TunnelLoop("none")
    /\ DatagramConnNew /\ MgrInit /\ ChainIdle /\ RouterIdle /\ StatusCacheNew /\ AutoListenerNew
    /\ RoutingIdle /\ RegIdle /\ UdpIdle /\ SrvIdle /\ ClientIdle /\ ShutdownIdle /\ ReloadIdle /\ ListenersIdle /\ WasmIdle /\ ProviderIdle /\ VarintIdle /\ DialIdle /\ RewriteIdle /\ AutoRunIdle

SpecStatusPath == StatusSpecInit /\ [][StatusNext]_vars

(***************************************************************************)
(* One register request from a client to the server.                       *)
(***************************************************************************)
\* Services as clients configure them: padded, upper case, without protocol,
\* blank, route-only with an address, and with characters JSON escapes.
RegServices ==
    { RegisteredService(<<" ", "a", " ">>, <<>>, <<" ", "l">>, FALSE,
                        <<" ", "r", " ">>, <<" ", "X">>),
      RegisteredService(<<" ">>, <<"t", "c", "p">>, <<"x">>, FALSE, <<>>, <<>>),
      RegisteredService(<<"b">>, <<" ", "U", "D", "P">>, <<>>, TRUE, <<"r">>, <<>>),
      RegisteredService(<<"q", "\"", "\\">>, <<"t", "c", "p">>, <<"\\", "t">>, FALSE,
                        <<"\t", "z", "\t">>, <<"\"">>) }

RegRequests ==
    {RegisterRequest(token, services) :
        token \in {<<>>, <<" ", "t", " ">>}, services \in SeqsUpTo(RegServices, MaxServices)}

RegNext == RegWrite \/ RegRead

RegSpecInit ==
    /\ rg \in {RegStart(req) : req \in RegRequests}
    /\ MgrInit /\ ChainIdle /\ RouterIdle /\ StatusCacheNew /\ AutoListenerNew
    /\ RoutingIdle /\ DatagramConnNew /\ UdpIdle /\ SrvIdle /\ ClientIdle /\ ShutdownIdle /\ ReloadIdle /\ ListenersIdle /\ WasmIdle /\ ProviderIdle /\ VarintIdle /\ DialIdle /\ RewriteIdle /\ TunnelLoopIdle /\ StatusPathIdle /\ AutoRunIdle

SpecRegister == RegSpecInit /\ [][RegNext]_vars

(***************************************************************************)
(* The UDP dataplane: datagrams of two peers, the session tasks, the       *)
(* sweeper and the clock.                                                  *)
(***************************************************************************)
IdleTimeouts == {0, 1}

\* A datagram with a payload, and an empty one.
UdpPayloads == {<<1>>, <<>>}

UdpNext ==
    \/ \E src \in Peers, payload \in UdpPayloads : UdpRecvFrom(src, payload)
    \/ UdpTouch
    \/ UdpTrySend
    \/ UdpRemove
    \/ UdpRecreate
    \/ UdpResend
    \/ \E s \in 1..MaxSessions : UdpSessionRecv(s)
    \/ \E s \in 1..MaxSessions : UdpSessionEnd(s)
    \/ SweepTick
    \/ \E k \in Peers : SweepRemove(k)
    \/ UdpClockTick

UdpSpecInit ==
    /\ \E idle_timeout \in IdleTimeouts : UdpServe(idle_timeout)
    /\ MgrInit /\ ChainIdle /\ RouterIdle /\ StatusCacheNew /\ AutoListenerNew
    /\ RoutingIdle /\ DatagramConnNew /\ RegIdle /\ SrvIdle /\ ClientIdle /\ ShutdownIdle /\ ReloadIdle /\ ListenersIdle /\ WasmIdle /\ ProviderIdle /\ VarintIdle /\ DialIdle /\ RewriteIdle /\ TunnelLoopIdle /\ StatusPathIdle /\ AutoRunIdle

SpecUdp == UdpSpecInit /\ [][UdpNext]_vars

\* The sweeper's interval fires every second and its loop body never waits, so
\* a sweeper that can take a step does.
SpecUdpFair ==
    /\ UdpSpecInit
    /\ [][UdpNext]_vars
    /\ WF_vars(SweepTick)
    /\ WF_vars(\E k \in Peers : SweepRemove(k))

\* The session tasks seen to their end: the UDP dataplane with the step a task
\* takes when its channel is closed.
SessionTaskNext ==
    \/ UdpNext
    \/ \E s \in 1..MaxSessions : UdpSessionSenderGone(s)

SpecSessionTask == UdpSpecInit /\ [][SessionTaskNext]_vars

\* The sweeper runs as in SpecUdpFair, the acceptor finishes the datagram it
\* has in hand, and a session task that can take a step of its own does
\* (tokio polls a woken task).  Nothing makes the upstream fail or answer.
SpecSessionTaskFair ==
    /\ SpecSessionTask
    /\ WF_vars(SweepTick)
    /\ WF_vars(\E k \in Peers : SweepRemove(k))
    /\ WF_vars(UdpTouch \/ UdpTrySend \/ UdpRemove \/ UdpRecreate \/ UdpResend)
    /\ WF_vars(\E s \in 1..MaxSessions : UdpSessionRecv(s) \/ UdpSessionSenderGone(s))

(***************************************************************************)
(* C4: what ChainMiddleware::parse returns, stated on what the modules      *)
(* themselves return.                                                       *)
(***************************************************************************)
\* The buffer module i is run on: the prelude as rewritten by the modules before it.
RECURSIVE ChainBuf(_, _, _)
ChainBuf(mods, prelude, i) ==
    IF i = 1 THEN prelude
    ELSE LET prev == ChainBuf(mods, prelude, i - 1)
             out == WasmRun(mods[i - 1], prev)
         IN  IF out.code = 2 /\ out.rw # <<>> THEN out.rw ELSE prev

ModuleReturn(mods, prelude, i) == WasmRun(mods[i], ChainBuf(mods, prelude, i))
EmitsHost(mods, prelude, i) ==
    /\ ModuleReturn(mods, prelude, i).code = 2
    /\ Trim(ModuleReturn(mods, prelude, i).host) # <<>>
MinOf(S) == CHOOSE x \in S : \A y \in S : x <= y

\* C4: parse returns the trimmed, lowercased host of the first module in chain
\* order that emits a host that is not blank; with no such module it returns
\* need-more-data if some module returned need-more-data and no-match otherwise;
\* a module that fails never stops the modules after it.
C4_ChainParse ==
    chResult # None =>
        LET r == Unwrap(chResult)
            emitters == {i \in 1..Len(chMods) : EmitsHost(chMods, chPrelude, i)}
        IN  IF emitters # {}
            THEN /\ r.ok
                 /\ r.host = ToAsciiLowercase(
                                 Trim(ModuleReturn(chMods, chPrelude, MinOf(emitters)).host))
            ELSE IF \E i \in 1..Len(chMods) : ModuleReturn(chMods, chPrelude, i).code = 0
                 THEN r = NeedMoreData
                 ELSE r = NoMatch

\* A failing module came first and the next one's padded, upper-case host won.
C4_Witness ==
    /\ chResult # None
    /\ Len(chMods) = 2
    /\ ModuleReturn(chMods, chPrelude, 1).code = -1
    /\ ModuleReturn(chMods, chPrelude, 2).host = <<" ", "B", ".", "X", " ">>
    /\ Unwrap(chResult) = ChainOk(<<"b", ".", "x">>, None)

(***************************************************************************)
(* Claims about the router.                                                *)
(***************************************************************************)
\* C2: a resolve / resolve_prelude call takes everything it reads (routes,
\* patterns, templates, strategy, round-robin counter, chain) from one table,
\* the one that was current when the call started, whatever updates run while
\* it is in its loop; so a call that starts after an update uses the new table.
C2_OneTablePerCall ==
    \A r \in Resolvers :
        rs[r].pc # "idle" => rs[r].reads = {rs[r].started_at}

\* A call is past its first route on a table that an update has since replaced.
C2_Witness ==
    \E r \in Resolvers :
        /\ rs[r].pc = "loop"
        /\ rs[r].i > 1
        /\ rs[r].cr # compiled
        /\ tables[compiled].routes # <<>>

DoneOn(r, kind) == rs[r].pc = "done" /\ rs[r].kind = kind
RouteOf(r) == tables[rs[r].cr].routes[rs[r].i]
MatchesSomePattern(rt, host) ==
    \E p \in 1..Len(rt.patterns) : MatchHost(host, rt.patterns[p]).matched

\* C5: resolve_prelude returns the Resolution of the first route, in declaration
\* order, whose chain emits a host matching one of that route's own patterns;
\* with no such route it returns NeedMoreData when some route's chain needed
\* more data and None otherwise. Chains that fail and hosts that match nothing
\* do not stop later routes.
C5_FirstMatchingRoute ==
    \A r \in Resolvers : DoneOn(r, "prelude") =>
        LET routes == tables[rs[r].cr].routes
            Parsed(j) == ChainParse(routes[j].middleware, rs[r].prelude)
            Wins(j) == Parsed(j).ok /\ MatchesSomePattern(routes[j], Parsed(j).host)
            winners == {j \in 1..Len(routes) : Wins(j)}
        IN  IF winners # {}
            THEN LET first == CHOOSE j \in winners : \A w \in winners : j <= w
                 IN  /\ rs[r].result.tag = "some"
                     /\ rs[r].i = first
                     /\ rs[r].result.res.host = Parsed(first).host
                     /\ rs[r].result.res.middleware = routes[first].middleware
                     /\ rs[r].result.res.prelude_override = Parsed(first).prelude_override
                     /\ \E p \in 1..Len(routes[first].patterns) :
                            rs[r].result.res.matched_host = routes[first].patterns[p].pattern
            ELSE IF \E j \in 1..Len(routes) : Parsed(j) = NeedMoreData
            THEN rs[r].result = ResNeedMoreData
            ELSE rs[r].result = ResNone

\* The third route won after a route whose middleware failed fatally and a route
\* whose chain emitted a host that matched none of its patterns.
C5_Witness ==
    \E r \in Resolvers :
        /\ DoneOn(r, "prelude")
        /\ rs[r].result.tag = "some"
        /\ rs[r].i = 3
        /\ LET routes == tables[rs[r].cr].routes
           IN  /\ ApplyImpl(routes[1].middleware[1], rs[r].prelude) = Fatal
               /\ ~ChainParse(routes[1].middleware, rs[r].prelude).ok
               /\ ChainParse(routes[2].middleware, rs[r].prelude).ok
               /\ ~MatchesSomePattern(routes[2],
                                      ChainParse(routes[2].middleware, rs[r].prelude).host)

\* T with every $j, 1 <= j <= Len(groups), replaced by groups[j] in one pass over
\* T, the longest index first, so that $10 is group 10 when there are ten groups.
RECURSIVE WithGroups(_, _)
WithGroups(T, groups) ==
    IF T = <<>> THEN <<>>
    ELSE IF Head(T) # "$" THEN <<Head(T)>> \o WithGroups(Tail(T), groups)
    ELSE LET rest == Tail(T)
             named == {j \in 1..Len(groups) :
                          /\ Len(Decimal(j)) <= Len(rest)
                          /\ SubSeq(rest, 1, Len(Decimal(j))) = Decimal(j)}
         IN  IF named = {} THEN <<"$">> \o WithGroups(rest, groups)
             ELSE LET j == CHOOSE x \in named : \A y \in named : y <= x
                  IN  groups[j] \o
                      WithGroups(SubSeq(rest, Len(Decimal(j)) + 1, Len(rest)), groups)

RotatedLeft(list, d) ==
    [j \in 1..Len(list) |-> list[((j - 1 + d) % Len(list)) + 1]]

\* C6: when a host matches a wildcard pattern, every resolved upstream is its
\* template with each $j replaced by the j-th captured group (the candidates in
\* the order the route's strategy gives them).
C6_SubstitutesCaptures ==
    \A r \in Resolvers :
        (rs[r].pc = "done" /\ rs[r].result.tag = "some") =>
            LET res == rs[r].result.res
                rt == RouteOf(r)
                expected == [u \in 1..Len(rt.upstreams) |->
                                WithGroups(rt.upstreams[u], res.captures)]
            IN  Contains(res.matched_host, "*") \/ Contains(res.matched_host, "?") =>
                    \E d \in 0..(Len(expected) - 1) :
                        res.upstreams = RotatedLeft(expected, d)

\* C7: the k-th matching resolution (k from 0) of a round-robin route with
\* N >= 2 upstreams returns the declared list rotated left by k mod N.
C7_RoundRobinRotation ==
    \A r \in Resolvers :
        (rs[r].pc = "done" /\ rs[r].result.tag = "some") =>
            LET res == rs[r].result.res
                rt == RouteOf(r)
                N == Len(rt.upstreams)
                declared == [u \in 1..N |-> SubstituteParams(rt.upstreams[u], res.captures)]
            IN  (rt.strategy = "RoundRobin" /\ N >= 2) =>
                    res.upstreams = RotatedLeft(declared, rs[r].k % N)

\* The fourth resolution of a three-upstream route starts at A again.
C7_Witness ==
    \E r \in Resolvers :
        /\ rs[r].pc = "done"
        /\ rs[r].result.tag = "some"
        /\ RouteOf(r).strategy = "RoundRobin"
        /\ Len(RouteOf(r).upstreams) = 3
        /\ rs[r].k = 3
        /\ rs[r].result.res.upstreams[1] = Up_A

(***************************************************************************)
(* Claims about the status cache.                                          *)
(***************************************************************************)
\* Two requests for one key, with a positive TTL, that ran side by side and found
\* no unexpired entry when they began; no time has passed since, and no dial of
\* theirs has failed.
ConcurrentCold(a, b) ==
    /\ a # b
    /\ b \in cs[a].peers
    /\ cs[a].key = cs[b].key
    /\ cs[a].ttl > 0 /\ cs[b].ttl > 0
    /\ cs[a].cold /\ cs[b].cold
    /\ cs[a].began = clock /\ cs[b].began = clock
    /\ \A x \in {a, b} : cs[x].out = None \/ Unwrap(cs[x].out).ok

\* C3: of concurrent status requests for one cache key, with positive TTL and no
\* unexpired entry, only one invokes the loader, and all of them receive the
\* bytes of that one invocation.
C3_SingleFlight ==
    \A a \in Requesters, b \in Requesters :
        ConcurrentCold(a, b) =>
            /\ ~(cs[a].loaded /\ cs[b].loaded)
            /\ (cs[a].pc = "done" /\ cs[b].pc = "done") => cs[a].result = cs[b].result

\* The cache.get of the handler runs for request q.
HandlerGetStep(q) == cs[q].pc = "handler_get" /\ cs'[q].pc # "handler_get"

\* C17: after a successful load with a positive TTL, a status request whose
\* cache.get runs before the entry expires is answered from the cache without a
\* dial; the first request whose cache.get runs at or after the expiry removes
\* the entry, and the loader is invoked again to answer it.
C17_TtlExpiry ==
    /\ [][\A q \in Requesters :
            (HandlerGetStep(q) /\ cs[q].key \in DOMAIN items /\ LoadReturned(cs[q].key)) =>
                IF clock < items[cs[q].key].expires_at
                THEN /\ cs'[q].pc = "done"
                     /\ cs'[q].result = Some(LoadOk(items[cs[q].key].data))
                     /\ ~cs'[q].loaded
                     /\ items' = items
                ELSE /\ cs[q].key \notin DOMAIN items'
                     /\ cs'[q].pc = "get"]_vars
    /\ [](\A q \in Requesters :
            (cs[q].pc = "done" /\ cs[q].evicted_at # None /\ cs[q].flight # 0) =>
                flights[cs[q].flight].born >= Unwrap(cs[q].evicted_at))

\* Request q's get_or_load returns an error in this step.
ReturnsError(q) ==
    /\ cs[q].pc # "done"
    /\ cs'[q].pc = "done"
    /\ cs'[q].result = Some(LoadErr)

\* An entry is stored only by the set of a load that succeeded, and a load that
\* fails goes on to publish its error without a set.
StoresOnlySuccess ==
    /\ \A k \in CacheKeys :
          (k \in DOMAIN items' /\ (k \notin DOMAIN items \/ items'[k] # items[k])) =>
              \E q \in Requesters :
                  /\ cs[q].pc = "set" /\ cs'[q].pc = "publish"
                  /\ cs[q].key = k
                  /\ Unwrap(cs[q].out).ok
                  /\ items'[k].data = Unwrap(cs[q].out).data
    /\ \A q \in Requesters :
          (cs[q].pc = "load" /\ cs'[q].out = Some(LoadErr)) =>
              cs'[q].pc = "publish" /\ items' = items

\* A get_or_load that finds no entry and no load in flight invokes the loader.
LoadsWhenNothingHeld ==
    \A q \in Requesters :
        /\ (cs[q].pc = "get" /\ cs'[q].pc # "get" /\ cs[q].key \notin DOMAIN items) =>
               cs'[q].pc = "join"
        /\ (cs[q].pc = "join" /\ cs'[q].pc # "join" /\ cs[q].key \notin DOMAIN inflight) =>
               cs'[q].pc = "load"
        /\ (cs[q].pc = "load" /\ cs'[q].pc # "load") => cs'[q].loaded

\* An error reaches the caller whose own load failed and the callers that
\* waited on the flight of a load that failed, nobody else.
ErrorOnlyToItsFlight ==
    \A q \in Requesters :
        (cs[q].pc = "done" /\ cs[q].result = Some(LoadErr)) =>
            /\ cs[q].flight # 0
            /\ flights[cs[q].flight].result = Some(LoadErr)
            /\ cs[q].loaded => cs[q].out = Some(LoadErr)

\* C18 as written: a load that fails is never stored; when get_or_load returns
\* an error the cache holds no entry for that key (none that a get would
\* return: an expired one counts as none), and the next get_or_load
\* invokes the loader again; the error reaches only the callers that waited on
\* that same flight.
C18_NoEntryAfterError ==
    /\ [][/\ StoresOnlySuccess
          /\ \A q \in Requesters :
                ReturnsError(q) =>
                    ~(cs[q].key \in DOMAIN items' /\ clock' < items'[cs[q].key].expires_at)
          /\ LoadsWhenNothingHeld]_vars
    /\ []ErrorOnlyToItsFlight

\* C18, amended: a load that fails is never stored; when get_or_load returns
\* an error the cache holds no entry for that key unless another load for the
\* key succeeded and was stored since that call began; a later get_or_load that
\* finds no entry and no load in flight invokes the loader again; the error
\* reaches only the callers that waited on that same flight.
C18_FailedLoadNotStored ==
    /\ [][/\ StoresOnlySuccess
          /\ \A q \in Requesters :
                (ReturnsError(q) /\ cs[q].key \in DOMAIN items') =>
                    /\ items'[cs[q].key].data # <<>>
                    /\ \E t \in CacheTtls :
                          t > 0 /\ items'[cs[q].key].expires_at - t >= cs[q].began
          /\ LoadsWhenNothingHeld]_vars
    /\ []ErrorOnlyToItsFlight

\* A load failed and its waiter got the error of that flight; the cache holds no
\* entry for the key, and the next request for it invoked the loader again.
C18_Witness ==
    \E q \in Requesters, p \in Requesters :
        /\ cs[q].pc = "done" /\ cs[q].result = Some(LoadErr) /\ ~cs[q].loaded
        /\ flights[cs[q].flight].result = Some(LoadErr)
        /\ cs[p].pc = "publish" /\ cs[p].key = cs[q].key /\ cs[p].loaded
        /\ cs[p].flight > cs[q].flight
        /\ cs[p].out = Some(LoadErr)
        /\ cs[q].key \notin DOMAIN items

\* A waiter returned the error of a failed load after another load for the key
\* had succeeded and been stored.
C18_WitnessStoredMeanwhile ==
    \E q \in Requesters :
        /\ cs[q].pc = "done" /\ cs[q].result = Some(LoadErr) /\ ~cs[q].loaded
        /\ Unexpired(cs[q].key)

(***************************************************************************)
(* Claims about the auto listener.                                         *)
(***************************************************************************)
\* C10: a reconcile that sees the manager as the reconcile before it saw it
\* leaves the running map as it is: it stops no listener and starts none, and
\* every listener keeps its key, its descriptor and its task.
C10_ReconcileIdempotent ==
    [][(au.pc = "lock" /\ au'.pc = "idle" /\ au.prev = Some(au.snaps)) =>
          /\ running' = running
          /\ stopped' = {}
          /\ spawned' = spawned]_vars

\* A second reconcile of an unchanged manager has run while listeners were up
\* and while the manager held services reconcile does not listen for.
C10_Witness ==
    /\ au.pc = "idle"
    /\ au.repeat
    /\ running # EmptyMap
    /\ \E s \in Unwrap(au.prev) : DesiredOf(s) = None

\* The snapshot entries reconcile has to listen for, by the claim's words:
\* not route-only and with an address.
Exposed(snaps) == {s \in snaps : ~s.service.route_only /\ s.service.remote_addr # <<>>}

\* C11: when reconcile returns, the keys of the running map are exactly
\* client_id/service_name over the snapshot entries that are not route-only and
\* have a remote_addr, each listener carries the descriptor of its entry, and
\* every listener whose service disappeared or whose descriptor changed has
\* been stopped and is not the task now running under its key.
C11_RunningIsDesired ==
    [][(au.pc = "lock" /\ au'.pc = "idle") =>
          LET want == Exposed(au.snaps)
              DescriptorOf(s) == DesiredSvc(s.client_id, s.service.name,
                                            s.service.proto, s.service.remote_addr)
              KeyOf(s) == ListenerKey(s.client_id, s.service.name)
          IN  /\ DOMAIN running' = {KeyOf(s) : s \in want}
              /\ \A s \in want : running'[KeyOf(s)].desired = DescriptorOf(s)
              /\ \A k \in DOMAIN running :
                    (\A s \in want : KeyOf(s) # k \/ DescriptorOf(s) # running[k].desired) =>
                        /\ running[k].task \in stopped'
                        /\ k \in DOMAIN running' => running'[k].task # running[k].task]_vars

\* A reconcile has returned with a listener up next to a route-only service
\* that was registered with an address, having stopped a listener.
C11_Witness ==
    /\ au.pc = "idle"
    /\ au.prev # None
    /\ running # EmptyMap
    /\ stopped # {}
    /\ \E s \in Unwrap(au.prev) : s.service.route_only

(***************************************************************************)
(* Claims about the routing handler.                                       *)
(***************************************************************************)
\* What the upstream received after the PROXY header, if one was sent.
PreludeWritten ==
    IF hr.rt.proxy_protocol_v2 /\ hr.written # <<>> THEN Tail(hr.written) ELSE hr.written

\* C12: once a Resolution was returned and the prelude was written, the upstream
\* has received, before splicing starts, exactly the bytes read from the client
\* so far: in order, none lost, none duplicated.
C12_PreludeForwardedExactly ==
    hr.pc = "splice" => PreludeWritten = hr.consumed

IsTunnel(cand) == StripPrefix(Trim(cand), Str_tunnel) # None

\* The candidates of the Resolution the handler got.
Candidates == IF hr.res = None THEN <<>> ELSE Unwrap(hr.res).upstreams

\* The name under which a candidate's connection is used.
LabelOf(cand) ==
    LET addr == Trim(cand)
        rest == StripPrefix(addr, Str_tunnel)
    IN  IF rest # None THEN Str_tunnel \o Trim(Unwrap(rest))
        ELSE IF UpstreamNeedsPort(addr) THEN addr \o <<":">> \o DefaultPort
        ELSE addr

AllFailed == \A i \in 1..Len(hr.dialed) : ~hr.dialed[i].ok

\* C13: candidates are dialed in the order the router returned them; the loop
\* stops at the first success and that upstream is the one used; a tunnel:
\* candidate whose service the manager does not know counts as a failed dial,
\* after which the next candidate is dialed; when every candidate failed the
\* client is closed and nothing was written to any upstream.
C13_DialsInOrder ==
    /\ [](/\ Len(hr.dialed) <= Len(Candidates)
          /\ \A i \in 1..Len(hr.dialed) :
                /\ hr.dialed[i].cand = Candidates[i]
                /\ i < Len(hr.dialed) => ~hr.dialed[i].ok
          /\ hr.pc = "dial" => AllFailed /\ hr.next = Len(hr.dialed) + 1
          /\ hr.pc \in {"forward", "splice"} =>
                /\ hr.dialed[Len(hr.dialed)].ok
                /\ hr.upstream_used # None
          /\ hr.upstream_used # None =>
                /\ hr.dialed # <<>>
                /\ hr.dialed[Len(hr.dialed)].ok
                /\ hr.upstream_used = Some(LabelOf(hr.dialed[Len(hr.dialed)].cand))
          /\ hr.pc = "closed" /\ hr.res # None /\ hr.upstream_used = None =>
                /\ Len(hr.dialed) = Len(Candidates)
                /\ AllFailed
                /\ hr.shutdown
                /\ hr.written = <<>>
          /\ hr.written # <<>> => hr.upstream_used # None)
    /\ [][(hr.pc = "dial" /\ hr'.dialed # hr.dialed) =>
             LET cand == Candidates[hr.next]
                 unknown == /\ IsTunnel(cand)
                            /\ Trim(Unwrap(StripPrefix(Trim(cand), Str_tunnel))) \notin DOMAIN primary
                 ok == hr'.dialed[Len(hr'.dialed)].ok
             IN  /\ unknown => ~ok
                 /\ ~ok /\ hr.next < Len(Candidates) =>
                       hr'.pc = "dial" /\ hr'.next = hr.next + 1
                 /\ ~ok /\ hr.next = Len(Candidates) =>
                       hr'.pc = "closed" /\ hr'.shutdown /\ hr'.written = <<>>
                 /\ ok => hr'.pc = "forward"]_vars

\* An unknown tunnel service was skipped and a later candidate was dialed with
\* success and used; and a connection whose three candidates all failed.
C13_Witness ==
    /\ hr.pc = "splice"
    /\ Len(hr.dialed) = 2
    /\ IsTunnel(hr.dialed[1].cand)
    /\ ~hr.dialed[1].ok
    /\ hr.upstream_used = Some(Up_A \o <<":">> \o DefaultPort)
    /\ hr.written = hr.captured

C13_WitnessAllFail ==
    /\ hr.pc = "closed"
    /\ Len(hr.dialed) = 3
    /\ AllFailed

(***************************************************************************)
(* Claims about datagram framing.                                          *)
(***************************************************************************)
\* The payloads write_datagram accepted, in call order.
Accepted == SelectSeq(dgWrites, LAMBDA w : w.ok)

RECURSIVE Frames(_)
Frames(ws) ==
    IF ws = <<>> THEN <<>>
    ELSE U32Be(Len(Head(ws).payload)) \o Head(ws).payload \o Frames(Tail(ws))

\* C14: the payloads read_datagram returns are the payloads write_datagram
\* accepted, in the same order and with the same bytes (a read into a buffer
\* too short for its frame returns none and takes that frame's place); every
\* payload of at most MAX_DATAGRAM_BYTES is accepted, and a larger one is
\* rejected with not one byte put on the stream.
C14_DatagramRoundTrip ==
    /\ [](/\ Len(dgReads) <= Len(Accepted)
          /\ \A i \in 1..Len(dgReads) :
                /\ dgReads[i].tag \in {"ok", "short"}
                /\ dgReads[i].tag = "ok" => dgReads[i].data = Accepted[i].payload
          /\ \A i \in 1..Len(dgWrites) :
                dgWrites[i].ok <=> Len(dgWrites[i].payload) <= MAX_DATAGRAM_BYTES)
    /\ [][\A i \in 1..Len(dgWrites') :
             (i > Len(dgWrites) /\ Len(dgWrites'[i].payload) > MAX_DATAGRAM_BYTES) =>
                 dgWire' = dgWire]_vars

\* Two non-empty payloads came back as sent, after an oversized one was refused.
C14_Witness ==
    /\ Len(dgWrites) = 3
    /\ \E i \in 1..3 : ~dgWrites[i].ok
    /\ Len(dgReads) = 2
    /\ dgReads[1].tag = "ok" /\ dgReads[1].data # <<>>
    /\ dgReads[2].tag = "ok" /\ dgReads[2].data # dgReads[1].data
    /\ dgWire = <<>>

\* C15: a read into a buffer shorter than its frame fails with the short-buffer
\* error having taken exactly that frame, header and payload, from the stream;
\* what stays on the stream are the frames behind it, and the next read returns
\* the following frame as it was sent.
C15_ShortReadKeepsAlignment ==
    /\ [](/\ dgWire = Frames(SubSeq(Accepted, Len(dgReads) + 1, Len(Accepted)))
          /\ \A i \in 1..Len(dgReads) :
                (i > 1 /\ dgReads[i - 1].tag = "short" /\ dgReads[i].tag = "ok") =>
                    dgReads[i].data = Accepted[i].payload)
    /\ [][(dgReads' # dgReads /\ dgReads'[Len(dgReads')].tag = "short") =>
             LET n == FromU32Be(SubSeq(dgWire, 1, 4))
             IN  /\ n <= MAX_DATAGRAM_BYTES
                 /\ n = Len(Accepted[Len(dgReads')].payload)
                 /\ dgWire' = SubSeq(dgWire, 4 + n + 1, Len(dgWire))]_vars

\* A short read, then the frame behind it read whole.
C15_Witness ==
    /\ Len(dgReads) >= 2
    /\ dgReads[1].tag = "short"
    /\ dgReads[2].tag = "ok"
    /\ dgReads[2].data # <<>>

(***************************************************************************)
(* Claims about the register request.                                      *)
(***************************************************************************)
\* A service as the server is to see it: name and local_addr trimmed, proto
\* trimmed, lower case and "tcp" when blank, masquerade_host trimmed and lower
\* case, remote_addr trimmed and empty for a route-only service.
AsRegistered(s) ==
    [name |-> Trim(s.name),
     proto |-> IF ToAsciiLowercase(Trim(s.proto)) = <<>> THEN <<"t", "c", "p">>
               ELSE ToAsciiLowercase(Trim(s.proto)),
     local_addr |-> Trim(s.local_addr),
     route_only |-> s.route_only,
     remote_addr |-> IF s.route_only THEN <<>> ELSE Trim(s.remote_addr),
     masquerade_host |-> ToAsciiLowercase(Trim(s.masquerade_host))]

\* The services with a name, in their order, each as the server is to see it.
NamedServices(services) ==
    LET named == SelectSeq(services, LAMBDA s : Trim(s.name) # <<>>)
    IN  [i \in 1..Len(named) |-> AsRegistered(named[i])]

RoundTripped ==
    /\ Unwrap(rg.got).ok
    /\ Unwrap(rg.got).req.token = rg.req.token
    /\ Unwrap(rg.got).req.services = NamedServices(rg.req.services)

\* The claim as written: every request written and then read comes back with
\* its token and its named services, normalized, in order.
C16_RoundTripAnyRequest ==
    (rg.pc = "done" /\ rg.got # None) => RoundTripped

\* C16 (amended): a request whose JSON body is at most MAX_REGISTER_JSON_BYTES
\* long comes back from read_register_request with the same token and with its
\* named services, normalized, in order; a longer one is written all the same
\* and read_register_request fails with PayloadTooLarge.
C16_RoundTripWithinLimit ==
    (rg.pc = "done" /\ rg.got # None) =>
        IF Len(ToJson(rg.req)) <= MAX_REGISTER_JSON_BYTES
        THEN RoundTripped
        ELSE ~Unwrap(rg.got).ok /\ Unwrap(rg.got).err = "PayloadTooLarge"

\* Three services sent, the blank one in the middle dropped, the route-only
\* one back without its address, escapes undone.
C16_Witness ==
    /\ rg.pc = "done"
    /\ rg.got # None
    /\ Unwrap(rg.got).ok
    /\ Len(rg.req.services) = 3
    /\ Trim(rg.req.services[2].name) = <<>>
    /\ Len(Unwrap(rg.got).req.services) = 2
    /\ Unwrap(rg.got).req.services[1].name = <<"q", "\"", "\\">>
    /\ Unwrap(rg.got).req.services[2].route_only
    /\ rg.req.services[3].remote_addr # <<>>

(***************************************************************************)
(* Claims about the UDP dataplane.                                         *)
(***************************************************************************)
\* The acceptor is done with the datagram in hand in this step.
UdpHandled == ua.pc \in {"send", "resend"} /\ ua'.pc = "recv"

\* No session's channel holds more than its capacity.
QueuesBounded ==
    \A s \in 1..Len(udps) : Len(udps[s].queue) <= SessionQueueCapacity

\* The acceptor's two enqueues are steps it can always take, whatever the queue.
EnqueueNeverWaits ==
    /\ ua.pc = "send" => ENABLED UdpTrySend
    /\ ua.pc = "resend" => ENABLED UdpResend

\* What the acceptor does after a try_send that failed: remove the peer's
\* session, create a fresh one and insert it, and try once to enqueue on it.
RecreatesOnFailure ==
    /\ (ua.pc = "send" /\ ua' # ua /\ TrySendFails(ua.sess)) =>
           ua'.pc = "remove" /\ udps' = udps /\ sessions' = sessions
    /\ (ua.pc = "remove" /\ ua' # ua) =>
           ua'.pc = "recreate" /\ ua.src \notin DOMAIN sessions'
    /\ (ua.pc = "recreate" /\ ua' # ua) =>
           /\ ua'.pc = "resend"
           /\ ua'.sess = Len(udps) + 1
           /\ udps' = Append(udps, UdpSessionNew(ua.src))
           /\ sessions'[ua.src] = ua'.sess
    /\ (ua.pc = "resend" /\ ua' # ua) =>
           /\ ua'.pc = "recv"
           /\ sessions' = sessions
           /\ \A s \in 1..Len(udps) : s # ua.sess => udps'[s] = udps[s]
           /\ udps'[ua.sess].queue \in {udps[ua.sess].queue, Append(udps[ua.sess].queue, ua.payload)}

\* C19: the acceptor never blocks on a session queue; a queue holds at most
\* its capacity; a failed enqueue makes the acceptor remove the peer's session,
\* create a fresh one and try once more; and when the acceptor is done with a
\* datagram of peer p, the peer map holds one session for p, the one the
\* datagram was handed to.
C19_OneSessionAfterDatagram ==
    /\ [](QueuesBounded /\ EnqueueNeverWaits)
    /\ [][/\ RecreatesOnFailure
          /\ UdpHandled => (ua.src \in DOMAIN sessions' /\ sessions'[ua.src] = ua.sess)]_vars

\* Peer p's session in the peer map is s, and no datagram of p has touched it
\* for longer than idle_timeout.
IdleInMap(p, s) ==
    /\ s <= Len(udps)
    /\ p \in DOMAIN sessions
    /\ sessions[p] = s
    /\ unix_ms - udps[s].last_seen > uopts.idle_timeout

\* A session leaves the peer map by the sweeper's remove or by the acceptor's.
RemovedBySweeperOrAcceptor ==
    \A p \in Peers :
        (p \in DOMAIN sessions /\ p \notin DOMAIN sessions') =>
            \/ /\ sweep.pc = "remove" /\ p \in sweep.to_remove /\ sweep' # sweep
               /\ uopts.idle_timeout > 0
               /\ udps'[sessions[p]].swept
            \/ ua.pc = "remove" /\ ua.src = p /\ ua'.pc = "recreate"

\* A datagram of a peer that has no session in the peer map creates one.
DatagramCreatesSession ==
    \A p \in Peers :
        (ua.pc = "recv" /\ ua'.pc = "touch" /\ ua'.src = p /\ p \notin DOMAIN sessions) =>
            /\ udps' = Append(udps, UdpSessionNew(p))
            /\ sessions' = MapPut(sessions, p, Len(udps) + 1)

\* C20: with idle_timeout > 0, a session of the peer map that no datagram of
\* its peer has touched for longer than idle_timeout is eventually removed
\* from the map (or touched by a new datagram after all), the sweeper being
\* the one that removes idle sessions; a later datagram of that peer creates a
\* new session; with idle_timeout = 0 the sweeper never evicts a session.
C20_IdleSessionsSwept ==
    /\ \A p \in Peers, s \in 1..MaxSessions :
          (uopts.idle_timeout > 0 /\ IdleInMap(p, s)) ~> ~IdleInMap(p, s)
    /\ [][RemovedBySweeperOrAcceptor /\ DatagramCreatesSession]_vars
    /\ [](uopts.idle_timeout = 0 =>
             /\ sweep.pc = "none"
             /\ \A s \in 1..Len(udps) : ~udps[s].swept)

\* The sweeper removed an idle session of a peer, and a later datagram of that
\* peer created a new session, which is the one in the peer map.
C20_Witness ==
    \E p \in Peers, s \in 1..Len(udps) :
        /\ udps[s].swept
        /\ udps[s].src = p
        /\ udps[s].rx_open
        /\ p \in DOMAIN sessions
        /\ sessions[p] > s
        /\ ua.pc = "recv"

\* Without an idle timeout a session stayed in the peer map although the clock
\* ran on after its last datagram.
C20_WitnessNoTimeout ==
    \E p \in DOMAIN sessions :
        /\ uopts.idle_timeout = 0
        /\ unix_ms - udps[sessions[p]].last_seen > 1
        /\ ua.pc = "recv"

(***************************************************************************)
(* The tunnel server with two sessions, the peers' tokens and the clock.   *)
(***************************************************************************)
\* auth_token as written in the configuration file.
SrvRawTokens == {<<>>, <<" ">>, <<"t">>, <<" ", "t">>}

\* Requests of clients: no token, the right one, the right one padded, a wrong one.
SrvRequests ==
    { RegisterRequest(<<>>, <<PlainService(SvcA)>>),
      RegisterRequest(<<"t">>, <<PlainService(SvcA), PlainService(SvcB)>>),
      RegisterRequest(<<" ", "t", " ">>, <<PlainService(SvcA)>>),
      RegisterRequest(<<"u">>, <<PlainService(SvcA), PlainService(SvcB)>>) }

SrvNext ==
    \/ SrvAccept
    \/ \E s \in 1..MaxTunnelSessions : SessionLost(s)
    \/ \E s \in 1..MaxTunnelSessions : HsNextClientId(s)
    \/ \E s \in 1..MaxTunnelSessions, req \in SrvRequests : HsReadRegister(s, req)
    \/ \E s \in 1..MaxTunnelSessions : HsReadRegisterErr(s)
    \/ \E s \in 1..MaxTunnelSessions : HsAuth(s)
    \/ \E s \in 1..MaxTunnelSessions, started \in 0..MaxTime : HsRegister(s, started)
    \/ \E s \in 1..MaxTunnelSessions : HsCloseUnsolicited(s)
    \/ \E s \in 1..MaxTunnelSessions : HsAcceptStreamErr(s)
    \/ \E s \in 1..MaxTunnelSessions : HsUnregister(s)
    \/ Tick

SrvSpecInit ==
    /\ \E raw \in SrvRawTokens : ServerNew(raw)
    /\ MgrInit /\ ChainIdle /\ RouterIdle /\ StatusCacheNew /\ AutoListenerNew
    /\ RoutingIdle /\ DatagramConnNew /\ RegIdle /\ UdpIdle /\ ClientIdle /\ ShutdownIdle /\ ReloadIdle /\ ListenersIdle /\ WasmIdle /\ ProviderIdle /\ VarintIdle /\ DialIdle /\ RewriteIdle /\ TunnelLoopIdle /\ StatusPathIdle /\ AutoRunIdle

SpecServer == SrvSpecInit /\ [][SrvNext]_vars

\* unregister_client waits only for the manager's write lock, which every
\* holder releases without waiting for anything else.
SpecServerFair ==
    SrvSpecInit /\ [][SrvNext]_vars /\ \A s \in 1..MaxTunnelSessions : WF_vars(HsUnregister(s))

(***************************************************************************)
(* Claims about the tunnel server.                                         *)
(***************************************************************************)
\* The session's request carries a token other than the configured, non-empty one.
WrongToken(s) ==
    /\ srv[s].req # None
    /\ srvopts.auth_token # <<>>
    /\ Unwrap(srv[s].req).token # srvopts.auth_token

InManager(cid) == cid \in DOMAIN clients \/ \E n \in DOMAIN primary : primary[n] = cid

PassedAuth(s) == s \in 1..Len(srv) /\ srv[s].pc = "auth" /\ srv'[s].pc # "auth"

\* C21: a session whose token differs from the non-empty configured auth_token
\* is closed by the token check and never registered, so the manager never
\* holds its client id or a primary of it; with an empty auth_token the token
\* check lets every session through to register_client.
C21_BadTokenNeverRegistered ==
    /\ [](\A s \in 1..Len(srv) :
            WrongToken(s) =>
                /\ ~srv[s].registered
                /\ srv[s].pc \in {"auth", "done"}
                /\ srv[s].pc = "done" => srv[s].closed
                /\ ~InManager(srv[s].cid))
    /\ [][\A s \in 1..MaxTunnelSessions :
            PassedAuth(s) =>
                /\ WrongToken(s) => srv'[s].pc = "done" /\ srv'[s].closed
                /\ srvopts.auth_token = <<>> => srv'[s].pc = "register"]_vars

\* One session was turned away with the padded token while another, with the
\* exact token, is registered.
C21_Witness ==
    /\ srvopts.auth_token = <<"t">>
    /\ \E s, r \in 1..Len(srv) :
        /\ WrongToken(s) /\ Unwrap(srv[s].req).token = <<" ", "t", " ">>
        /\ srv[s].pc = "done" /\ srv[s].closed
        /\ srv[r].registered /\ srv[r].cid \in DOMAIN clients

\* Without a configured token a session with any token is registered.
C21_WitnessNoToken ==
    /\ srvopts.auth_token = <<>>
    /\ \E s \in 1..Len(srv) :
        /\ srv[s].req # None /\ Unwrap(srv[s].req).token = <<"u">>
        /\ srv[s].cid \in DOMAIN clients

Terminated(s) == s \in 1..Len(srv) /\ srv[s].registered /\ srv[s].pc = "unregister"

GoneFromManager(s) == s \in 1..Len(srv) /\ srv[s].pc = "done" /\ ~InManager(srv[s].cid)

UnregisterReturned(s) == s \in 1..Len(srv) /\ srv[s].pc = "unregister" /\ srv'[s].pc = "done"

\* Every name the client owned has a provider among the remaining clients or no primary.
ReelectedOrRemoved(owned) ==
    \A n \in owned :
        n \in DOMAIN primary' =>
            /\ primary'[n] \in DOMAIN clients'
            /\ n \in DOMAIN clients'[primary'[n]].services

\* C22: a registered session whose accept_stream failed leads to unregister_client
\* with its client id: the client leaves the manager and each primary it owned
\* is re-elected or removed; the accept loop is left only when the session is
\* gone, and a stream the client opens meanwhile is closed while the session
\* stays registered.
C22_TerminationUnregisters ==
    /\ \A s \in 1..MaxTunnelSessions :
          Terminated(s) ~> GoneFromManager(s)
    /\ [][\A s \in 1..MaxTunnelSessions :
            /\ UnregisterReturned(s) /\ srv[s].registered =>
                  /\ mgrLast' = [op |-> "unregister", id |-> srv[s].cid,
                                 owned |-> OwnedBy(primary, srv[s].cid), closed |-> TRUE]
                  /\ srv[s].cid \notin DOMAIN clients'
                  /\ OwnedBy(primary', srv[s].cid) = {}
                  /\ ReelectedOrRemoved(OwnedBy(primary, srv[s].cid))
            /\ (s \in 1..Len(srv) /\ srv[s].pc = "loop" /\ srv'[s].pc # "loop") =>
                  srv'[s].pc = "unregister" /\ ~SessionAlive(s)
            /\ (s \in 1..Len(srv) /\ srv'[s].unsolicited # srv[s].unsolicited) =>
                  /\ srv'[s].pc = "loop" /\ srv'[s].closed = srv[s].closed
                  /\ srv[s].cid \in DOMAIN clients']_vars
    /\ [](\A s \in 1..Len(srv) : srv[s].pc = "loop" => srv[s].cid \in DOMAIN clients)

\* A session that closed an unsolicited stream, was lost and unregistered, its
\* names passing to the other registered session.
C22_Witness ==
    \E s, r \in 1..Len(srv) :
        /\ srv[s].registered /\ srv[s].pc = "done" /\ srv[s].unsolicited > 0
        /\ mgrLast = [op |-> "unregister", id |-> srv[s].cid, owned |-> {SvcA, SvcB},
                      closed |-> TRUE]
        /\ srv[r].pc = "loop"
        /\ SvcA \in DOMAIN primary /\ primary[SvcA] = srv[r].cid
        /\ SvcB \notin DOMAIN primary

(***************************************************************************)
(* The tunnel client against a server that refuses, accepts and drops      *)
(* connections.                                                            *)
(***************************************************************************)
\* dial_timeout as configured: unset, one and two seconds.
ClientDialTimeouts == {0, 1, 2}

ClientNext ==
    \/ ClientLoopTop
    \/ \E d \in 0..MaxDial, ok \in BOOLEAN : ClientDial(d, ok)
    \/ \E ok \in BOOLEAN : ClientRegister(ok)
    \/ \E ok \in BOOLEAN : ClientAcceptStream(ok)
    \/ ClientConnectedShutdown
    \/ ClientSleep
    \/ ClientWaitShutdown
    \/ ClientShutdownSent

ClientSpecInit ==
    /\ \E dial_timeout \in ClientDialTimeouts : ClientRun(dial_timeout)
    /\ MgrInit /\ ChainIdle /\ RouterIdle /\ StatusCacheNew /\ AutoListenerNew
    /\ RoutingIdle /\ DatagramConnNew /\ RegIdle /\ UdpIdle /\ SrvIdle /\ ShutdownIdle /\ ReloadIdle /\ ListenersIdle /\ WasmIdle /\ ProviderIdle /\ VarintIdle /\ DialIdle /\ RewriteIdle /\ TunnelLoopIdle /\ StatusPathIdle /\ AutoRunIdle

SpecClient == ClientSpecInit /\ [][ClientNext]_vars

(***************************************************************************)
(* Claims about the tunnel client.                                         *)
(***************************************************************************)
RECURSIVE Pow2(_)
Pow2(n) == IF n <= 0 THEN 1 ELSE 2 * Pow2(n - 1)

ExpectedWait(n) == IF Pow2(n - 1) < 10 THEN Pow2(n - 1) ELSE 10

\* C23: the wait before the n-th consecutive retry is min(2^(n-1), 10) seconds,
\* n counting the retries since the last established connection; every wait is
\* between 1 s and 10 s, and no dial lasts longer than dial_timeout.
C23_BackoffSchedule ==
    /\ tc.pc = "wait" =>
          /\ tc.waiting = ExpectedWait(tc.consecutive)
          /\ 1 <= tc.waiting /\ tc.waiting <= 10
    /\ tc.elapsed <= tc.dial_timeout

(***************************************************************************)
(* The process from startup to exit: a signal or a failed task, the loops, *)
(* the drain.                                                              *)
(***************************************************************************)
ShutdownNext ==
    \/ TcpLoopShutdown \/ TcpLoopAccept \/ TcpLoopAcceptErr
    \/ UdpLoopShutdown \/ UdpLoopRecv \/ UdpLoopRecvErr
    \/ SweepLoopShutdown \/ SweepLoopTick
    \/ ReloadLoopShutdown \/ ReloadLoopReload \/ ReloadLoopApplied
    \/ \E spawn \in BOOLEAN : AutoLoopReconciled(spawn)
    \/ AutoLoopChanged \/ AutoLoopShutdown
    \/ ListenerLoopBranch
    \/ \E ok \in BOOLEAN : ListenerLoopBodyDone(ok)
    \/ ServerLoopShutdown \/ ServerLoopAccept \/ ServerLoopAcceptErr
    \/ RunClientTop
    \/ \E ok \in BOOLEAN : RunClientDialed(ok)
    \/ \E ok \in BOOLEAN : RunClientRegistered(ok)
    \/ RunClientConnectedShutdown
    \/ \E ok \in BOOLEAN : RunClientStream(ok)
    \/ RunClientWaitShutdown \/ RunClientSlept
    \/ MainShutdownSignal \/ MainTaskFailed \/ MainDrainJoined
    \/ MainDrainTick \/ MainDrainAbort \/ MainRuntimeDrop

ShutdownSpecInit ==
    /\ \E sweeper \in BOOLEAN : RunSpawned(sweeper)
    /\ MgrInit /\ ChainIdle /\ RouterIdle /\ StatusCacheNew /\ AutoListenerNew
    /\ RoutingIdle /\ DatagramConnNew /\ RegIdle /\ UdpIdle /\ SrvIdle /\ ClientIdle /\ ReloadIdle /\ ListenersIdle /\ WasmIdle /\ ProviderIdle /\ VarintIdle /\ DialIdle /\ RewriteIdle /\ TunnelLoopIdle /\ StatusPathIdle /\ AutoRunIdle

SpecShutdown == ShutdownSpecInit /\ [][ShutdownNext]_vars

\* select! polls its branches in random order, so a shutdown branch that stays
\* ready is taken, and one that is ready again and again (reload_loop and
\* AutoListener::run come back to their select! after every branch) is taken
\* too; a step that waits for nothing is taken, and the timers of app::run fire.
SpecShutdownFair ==
    /\ ShutdownSpecInit /\ [][ShutdownNext]_vars
    /\ WF_vars(TcpLoopShutdown) /\ WF_vars(UdpLoopShutdown) /\ WF_vars(SweepLoopShutdown)
    /\ WF_vars(ServerLoopShutdown)
    /\ SF_vars(ReloadLoopShutdown) /\ SF_vars(AutoLoopShutdown)
    /\ WF_vars(RunClientConnectedShutdown) /\ WF_vars(RunClientWaitShutdown)
    /\ WF_vars(RunClientTop)
    /\ WF_vars(MainDrainJoined) /\ WF_vars(MainDrainTick) /\ WF_vars(MainDrainAbort)
    /\ WF_vars(MainRuntimeDrop)

(***************************************************************************)
(* Claims about shutdown.                                                  *)
(***************************************************************************)
AllLoopsStopped == \A l \in DOMAIN lp : ~TaskRunning(l)

\* The loops whose branches never wait: accept and spawn, receive and queue, scan.
PromptLoops == {"tcp", "udp", "sweep", "server"}

\* The places where a task waits for something other than the shutdown watch.
AwaitingPcs == {"body", "dial", "register"}

AbortedNow(l) == lp'[l].pc = "aborted" /\ lp[l].pc # "aborted"

\* C24: once the shutdown value is true every loop stops and app::run returns;
\* a loop that sees the value leaves its loop, the loops whose branches never
\* wait leave on their own (the detached sweeper at the latest when the runtime
\* is dropped), the drain never lasts longer than 5 s, and
\* abort_all comes only at the 5 s bound and only hits tasks that were waiting
\* inside a branch.
C24_ShutdownStopsLoops ==
    /\ sd.value ~> (sd.pc = "exit" /\ AllLoopsStopped)
    /\ \A l \in PromptLoops :
          (sd.pc = "drain" /\ lp[l].pc = "select") ~> (lp[l].pc \in {"exited", "failed", "dropped"})
    /\ [](sd.elapsed <= DrainTimeout)
    /\ [][/\ \A l \in DOMAIN lp :
                (lp'[l].seen # lp[l].seen /\ sd.value) => lp'[l].pc = "exited"
          /\ (sd.pc = "drain" /\ sd'.pc = "returned") =>
                /\ \A l \in JoinSetTasks : TaskFinished(l)'
                /\ \A l \in DOMAIN lp :
                      AbortedNow(l) => sd.elapsed = DrainTimeout /\ lp[l].pc \in AwaitingPcs]_vars

\* After a signal the client hung in its registration was aborted at the
\* bound while every other loop had left on its own.
C24_Witness ==
    /\ sd.pc = "exit" /\ sd.elapsed = DrainTimeout
    /\ lp["client"].pc = "aborted"
    /\ \A l \in {"reload", "tcp", "udp", "server", "auto", "sweep"} : lp[l].pc = "exited"
    /\ lp["listener"].pc = "aborted"

\* Every loop left before a second had passed.
C24_WitnessPrompt ==
    /\ sd.pc = "exit" /\ sd.elapsed = 0
    /\ \A l \in JoinSetTasks : lp[l].pc = "exited"

(***************************************************************************)
(* C25                                                                     *)
(***************************************************************************)

\* The last reload attempt read a file that does not load, or a configuration
\* with a route whose chain the directory cannot build.
ReloadCannotSucceed ==
    \/ ~rl.cfg.ok
    \/ /\ rl.last # "running"
       /\ \E i \in 1..Len(rl.cfg.routes) : ~BuildChain(rl.dir, rl.cfg.routes[i].middlewares)

\* apply_reload has returned from such an attempt.
FailedReloadReturned == rl.pc = "idle" /\ rl.attempts > 0 /\ ReloadCannotSucceed

\* Resolver r enters resolve or resolve_prelude in this step.
ResolutionBegins(r) ==
    /\ rs[r].pc \in {"idle", "done"}
    /\ rs'[r] # rs[r]

\* C25: when a reload fails, because the configuration does not load or
\* because the chain of one of its routes cannot be built, the compiled table
\* of the router and the TCP runtime configuration are what they were before
\* the attempt, no table was stored, and a resolution that starts afterwards
\* works on the table from before the attempt.
C25_FailedReloadKeepsState ==
    /\ [](FailedReloadReturned =>
            /\ compiled = rl.before.compiled
            /\ Len(tables) = rl.before.ntables
            /\ tables[compiled] = rl.before.table
            /\ tcprt = rl.before.runtime)
    /\ [][\A r \in Resolvers :
            (FailedReloadReturned /\ ResolutionBegins(r)) =>
                /\ rs'[r].cr = rl.before.compiled
                /\ tables'[rs'[r].cr] = rl.before.table]_vars

\* A second reload failed at a later route after the first routes were built,
\* the first reload having replaced table and runtime configuration, and a
\* resolution that started after the failure has finished on the first
\* reload's table.
C25_Witness ==
    /\ FailedReloadReturned
    /\ rl.last = "build_failed"
    /\ Len(rl.cfg.routes) > 1
    /\ BuildChain(rl.dir, rl.cfg.routes[1].middlewares)
    /\ rl.before.compiled = 2
    /\ tcprt # ReloadStartConfig.runtime
    /\ rl.cfg.runtime # tcprt
    /\ \E r \in Resolvers : rs[r].pc = "done" /\ rs[r].cr = 2 /\ rs[r].result # ResNone

\* A reload whose file did not load, after one that was applied.
C25_WitnessLoad ==
    /\ FailedReloadReturned
    /\ rl.last = "load_failed"
    /\ rl.before.compiled = 2
    /\ tcprt # ReloadStartConfig.runtime

(***************************************************************************)
(* C26                                                                     *)
(***************************************************************************)

\* The step handled one peer's datagram and its dial or its write failed.
FlowFailure(peer) ==
    /\ ul'.last # ul.last \/ ul'.pc # ul.pc
    /\ ul'.last.branch \in {"dial_failed", "write_failed"}
    /\ ul'.last.peer = peer

\* C26: a tunnel dial failure or write error while the UDP listener handles
\* one peer's datagram leaves the listener in its loop and every other peer's
\* flow in the map as it was, and a failed tunnel dial of one accepted TCP
\* connection leaves the TCP listener accepting and the other connections
\* untouched.
C26_FailureClosesOnlyItsFlow ==
    [][/\ \A peer \in Peers :
            FlowFailure(peer) =>
                /\ ListenerRunning(ul')
                /\ \A q \in DOMAIN ul.flows \ {peer} :
                       q \in DOMAIN ul'.flows /\ ul'.flows[q] = ul.flows[q]
       /\ \A c \in 1..Len(tl.conns) :
            (tl.conns[c] = "dial" /\ tl'.conns[c] = "failed") =>
                /\ ListenerRunning(tl) => ListenerRunning(tl')
                /\ \A d \in 1..Len(tl.conns) : d # c => tl'.conns[d] = tl.conns[d]]_vars

(***************************************************************************)
(* C27                                                                     *)
(***************************************************************************)

\* The bytes [ptr, ptr + len) lie in a memory of `pages` pages; the sum is
\* taken half by half, so nothing wraps.
WithinMemory(ptr, len, pages) ==
    LET lo == ptr.lo + len.lo
        hi == ptr.hi + len.hi + lo \div Half
    IN  hi < pages \/ (hi = pages /\ lo % Half = 0)

RecordInRange == ~RecordTooSmall(wm.out.len) /\ WithinMemory(wm.out.ptr, wm.out.len, wm.pages)

ReturnedARecord == ~OutIsNeedMore(wm.out) /\ ~OutIsNoMatch(wm.out) /\ ~OutIsFatal(wm.out)

\* C27: every range the host reads lies inside the module's memory as it is
\* after the call, the sum ptr + len taken without wrapping at 32 bits; a
\* record, a host slice or a rewrite slice that does not lie inside it makes
\* the result fatal, and nothing is read outside the memory.
C27_ReadsStayInMemory ==
    /\ \A r \in wm.reads : WithinMemory(r.ptr, r.len, wm.pages)
    /\ (wm.pc = "done" /\ ReturnedARecord) =>
          /\ ~RecordInRange => (wm.result = "Fatal" /\ wm.reads = {})
          /\ (RecordInRange /\ ~IsZero(wm.record.host_len)
                /\ ~WithinMemory(wm.record.host_ptr, wm.record.host_len, wm.pages))
                => (wm.result = "Fatal"
                    /\ wm.reads = {MemoryRead(wm.out.ptr, U32(0, 16))})
          /\ (RecordInRange /\ ~IsZero(wm.record.rw_len)
                /\ ~WithinMemory(wm.record.rw_ptr, wm.record.rw_len, wm.pages))
                => (wm.result = "Fatal" /\ ~wm.rewrite)

\* A rewrite slice whose 32-bit sum would wrap to a small number was refused
\* after the record and an in-range host slice had been read.
C27_Witness ==
    /\ wm.pc = "done" /\ wm.result = "Fatal"
    /\ Cardinality(wm.reads) = 2
    /\ wm.record.rw_ptr = U32(Half - 1, Half - 16)
    /\ wm.record.rw_len = U32(0, 16)
    /\ wm.pages = 4

\* A record in the last 16 bytes of a memory of four pages with both slices
\* read up to the last byte.
C27_WitnessRead ==
    /\ wm.pc = "done" /\ wm.result = "Ok" /\ wm.rewrite
    /\ wm.out.ptr = U32(3, Half - 16)
    /\ wm.record.host_ptr = U32(3, Half - 16) /\ wm.record.host_len = U32(0, 16)
    /\ Cardinality(wm.reads) = 2
    /\ wm.pages = 4

(***************************************************************************)
(* C28                                                                     *)
(***************************************************************************)

\* The modules get has returned so far for this name.
ReturnedFor(name) ==
    {Unwrap(gets[t].result) : t \in {u \in ProviderThreads :
        gets[u].pc = "done" /\ gets[u].name = name /\ gets[u].result # None}}

CompilationsOf(name) == {i \in 1..Len(pv.compiled) : pv.compiled[i].name = name}

\* C28: whatever calls of get are made for one name, one after another or at
\* the same time, the module is compiled at most once, the cache entry once
\* written is never replaced, and all callers hold the same compiled module.
C28_CompiledOncePerName ==
    /\ [](\A i \in 1..Len(pv.compiled) :
            /\ Cardinality(CompilationsOf(pv.compiled[i].name)) <= 1
            /\ Cardinality(ReturnedFor(pv.compiled[i].name)) <= 1)
    /\ [][\A n \in DOMAIN pv.cache : pv'.cache[n] = pv.cache[n]]_vars

(***************************************************************************)
(* C29                                                                     *)
(***************************************************************************)

\* The name has a path separator or a dot (and so, possibly, an extension).
NameOutsideAlphabet(name) == Contains(name, "/") \/ Contains(name, ".")

\* The name with every '-' turned into '_'.
DashesAsUnderscores(name) == StrReplace(name, <<"-">>, <<"_">>)

\* C29: a call of get whose name has a separator or a dot is refused and reads
\* no file, and the file any other call reads is <middleware_dir>/<name>.wat
\* with the dashes of the name taken as underscores.
C29_NamesValidated ==
    \A t \in ProviderThreads :
        /\ NameOutsideAlphabet(gets[t].name) =>
              /\ gets[t].path = None
              /\ gets[t].pc # "idle" => gets[t].pc = "done" /\ gets[t].err
        /\ gets[t].path # None =>
              Unwrap(gets[t].path) =
                  pv.dir \o <<"/">> \o DashesAsUnderscores(gets[t].name) \o Ext_wat

(***************************************************************************)
(* C30                                                                     *)
(***************************************************************************)

\* 0 <= v < 2^31: bit 31 is clear.
NonNegative(v) == v.hi < Half \div 2

\* C30: a value from 0 to 2^31 - 1 written by write_varint takes at most five
\* bytes, and each of the two read_varint returns that value from them, the
\* one of the proxy together with the number of bytes written.
C30_VarintRoundTrip ==
    (vi.source = "value" /\ NonNegative(vi.v)) =>
        /\ Len(vi.bytes) <= 5
        /\ vi.pc = "done" =>
              /\ vi.out.tag = "Ok"
              /\ vi.out.value = vi.v
              /\ vi.reader = "buf" => vi.out.n = Len(vi.bytes)

\* 2^31 - 1 came back from five bytes through the reader of the proxy.
C30_Witness ==
    /\ vi.pc = "done" /\ vi.source = "value" /\ vi.reader = "buf"
    /\ vi.v = U32(Half \div 2 - 1, Half - 1)
    /\ Len(vi.bytes) = 5
    /\ vi.out.value = vi.v

\* 128, the first value of two bytes, came back through the stream reader.
C30_WitnessStream ==
    /\ vi.pc = "done" /\ vi.source = "value" /\ vi.reader = "stream"
    /\ vi.v = U32(0, 128)
    /\ vi.bytes = <<128, 1>>
    /\ vi.out.tag = "Ok" /\ vi.out.value = vi.v

(***************************************************************************)
(* C31                                                                     *)
(***************************************************************************)

\* The step is register_client(id, ...) taking the lock while id is registered.
Replaces(id) ==
    /\ now' = now /\ mgrLast'.op = "register" /\ mgrLast'.id = id
    /\ id \in DOMAIN clients

\* C31: register_client for an id that is registered closes the old session;
\* every name the old registration was primary for goes to the oldest of the
\* other clients that provide it, and only when there is none to the new
\* registration, if it provides the name; a name with another primary keeps
\* it; a name without a primary gets the new registration when it provides it.
C31_ReplaceReelectsFirst ==
    [][\A id \in ClientIds : Replaces(id) =>
          LET Others(n) == {d \in DOMAIN clients \ {id} : n \in DOMAIN clients[d].services}
              new == DOMAIN clients'[id].services
          IN  /\ mgrLast'.closed
              /\ \A d \in DOMAIN clients \ {id} : d \in DOMAIN clients' /\ clients'[d] = clients[d]
              /\ \A n \in DOMAIN primary :
                    IF primary[n] # id
                    THEN n \in DOMAIN primary' /\ primary'[n] = primary[n]
                    ELSE IF Others(n) # {}
                    THEN /\ n \in DOMAIN primary'
                         /\ primary'[n] \in Others(n)
                         /\ \A d \in Others(n) :
                               clients[primary'[n]].started <= clients[d].started
                    ELSE IF n \in new
                    THEN n \in DOMAIN primary' /\ primary'[n] = id
                    ELSE n \notin DOMAIN primary'
              /\ \A n \in DOMAIN primary' \ DOMAIN primary : n \in new /\ primary'[n] = id
              /\ \A n \in new : n \in DOMAIN primary']_vars

\* A client that was primary for a name registered again with that name while
\* a younger client also provides it: the name went to the younger client.
C31_Witness ==
    /\ mgrLast.op = "register" /\ mgrLast.closed
    /\ \E n \in mgrLast.owned :
          /\ n \in DOMAIN clients[mgrLast.id].services
          /\ primary[n] # mgrLast.id
          /\ clients[primary[n]].started >= clients[mgrLast.id].started

(***************************************************************************)
(* C39                                                                     *)
(***************************************************************************)

\* The names has_service is asked about: as registered, and padded.
ServiceQueries == {SvcA, SvcB, <<" ", "a">>, <<"b", " ">>, <<"c">>, <<" ">>}

\* C39: in every state of the manager each entry of primary names a client
\* that is in the clients map and provides that service, and has_service
\* answers true for a name exactly when some registered client provides it.
C39_NoDanglingPrimary ==
    /\ \A n \in DOMAIN primary :
          /\ primary[n] \in DOMAIN clients
          /\ n \in DOMAIN clients[primary[n]].services
    /\ \A q \in ServiceQueries :
          HasService(primary, q) <=> \E cid \in DOMAIN clients : Provides(clients, cid, Trim(q))

\* A client registered again without a name it was primary for and nobody else
\* provides: the entry is gone while another name is still served.
C39_Witness ==
    /\ mgrLast.op = "register" /\ mgrLast.closed
    /\ \E n \in mgrLast.owned : n \notin DOMAIN primary
    /\ primary # EmptyMap
    /\ Cardinality(DOMAIN clients) > 1

(***************************************************************************)
(* C32                                                                     *)
(***************************************************************************)

\* The dial that leaves the read lock in this step was asked for client c
\* (or for the primary when c is None) and service s.
DialLooksUp == dl.pc = "idle" /\ dl'.pc # "idle"

\* pinned client c is registered and provides s (both as trimmed by the dial).
PinnedProvides(c, s) == Trim(c) \in DOMAIN clients /\ Provides(clients, Trim(c), s)

\* The session a dial has to use, from the state it looks up in.
DialOwner(pinned, s) ==
    IF s = <<>> THEN None
    ELSE IF pinned # None
         THEN IF PinnedProvides(Unwrap(pinned), s) THEN Some(Trim(Unwrap(pinned))) ELSE None
         ELSE IF s \in DOMAIN primary THEN Some(primary[s]) ELSE None

\* C32 as stated: a dial for a client that is registered and provides the
\* service (or for a service with a primary) opens the substream, on that
\* client's session, and every other dial fails with service-not-found.
C32_DialOpensWheneverProvided ==
    [][ /\ DialLooksUp =>
            /\ dl'.sess = DialOwner(dl'.pinned, dl'.service)
            /\ (dl'.sess = None) <=> (dl'.pc = "done" /\ dl'.out = "ServiceNotFound")
        /\ (dl.pc = "selected" /\ dl'.pc = "done") => dl'.out = "Ok"
      ]_vars

\* C32, amended: the session is chosen as stated, at the lookup; the dial
\* returns a stream of that session when open_stream and the header write
\* succeed, and service-not-found in every other case, a session closed by a
\* replacement or an unregister since the lookup included.
C32_DialSelectsOwner ==
    [][ /\ DialLooksUp =>
            /\ dl'.sess = DialOwner(dl'.pinned, dl'.service)
            /\ (dl'.sess = None) <=> (dl'.pc = "done" /\ dl'.out = "ServiceNotFound")
            /\ (dl'.sess # None) <=> (dl'.pc = "selected")
        /\ (dl.pc = "selected" /\ dl'.pc = "done") =>
            /\ dl'.sess = dl.sess
            /\ dl'.out \in {"Ok", "ServiceNotFound"}
            /\ dl.closed => dl'.out = "ServiceNotFound"
      ]_vars

\* A dial pinned to a client that is not the primary of the service got its
\* stream on that client's session.
C32_Witness ==
    /\ dl.pc = "done" /\ dl.out = "Ok"
    /\ dl.pinned # None
    /\ dl.service \in DOMAIN primary
    /\ dl.sess # Some(primary[dl.service])

\* A dial without a pinned id got its stream.
C32_WitnessPrimary ==
    /\ dl.pc = "done" /\ dl.out = "Ok"
    /\ dl.pinned = None

\* A dial whose client was registered again before open_stream ran.
C32_WitnessClosed ==
    /\ dl.pc = "done" /\ dl.out = "ServiceNotFound"
    /\ dl.closed
    /\ Unwrap(dl.sess) \in DOMAIN clients /\ Provides(clients, Unwrap(dl.sess), dl.service)

(***************************************************************************)
(* C33                                                                     *)
(***************************************************************************)
MaxOf(S) == CHOOSE x \in S : \A y \in S : x >= y

\* The calls of a finished rewrite that came back with a rewrite.
Rewriters == {j \in 1..Len(rwc.calls) : rwc.calls[j].out.ok /\ rwc.calls[j].out.rewrite # None}

\* The buffer after the first i calls, from what the modules returned.
BufferAfter(i) ==
    LET before == {j \in Rewriters : j <= i}
    IN  IF before = {} THEN rwc.prelude ELSE Unwrap(rwc.calls[MaxOf(before)].out.rewrite)

\* C33: a finished ChainMiddleware::rewrite has applied every module of the
\* chain exactly once, in chain order, each to the buffer as rewritten by the
\* modules before it; a module that fails or returns no rewrite leaves the
\* buffer as it was and the modules after it still run; the result is the final
\* buffer when at least one module rewrote it, and no rewrite otherwise.
C33_RewriteThreadsBuffer ==
    rwc.pc = "done" =>
        /\ Len(rwc.calls) = Len(rwc.mods)
        /\ \A i \in 1..Len(rwc.mods) :
              /\ rwc.calls[i].m = rwc.mods[i]
              /\ rwc.calls[i].buf = BufferAfter(i - 1)
              /\ rwc.calls[i].out = ApplyImplRewrite(rwc.mods[i], BufferAfter(i - 1),
                                                     rwc.selected_upstream)
        /\ rwc.result = IF Rewriters = {} THEN None ELSE Some(BufferAfter(Len(rwc.mods)))

\* A chain whose first module rewrote the prelude and whose second rewrote
\* what the first produced.
C33_Witness ==
    /\ rwc.pc = "done"
    /\ Rewriters = {1, 2}
    /\ rwc.calls[2].buf # rwc.prelude
    /\ rwc.result = rwc.calls[2].out.rewrite

\* A failing module came first and the module after it still rewrote.
C33_WitnessFailure ==
    /\ rwc.pc = "done"
    /\ Len(rwc.calls) = 2
    /\ rwc.calls[1].out = Fatal
    /\ Rewriters = {2}
    /\ rwc.result # None

\* No module rewrote: the call returns no rewrite.
C33_WitnessNone ==
    /\ rwc.pc = "done"
    /\ Len(rwc.calls) = 2
    /\ rwc.calls[1].out.ok
    /\ Rewriters = {}
    /\ rwc.result = None

(***************************************************************************)
(* C34                                                                     *)
(***************************************************************************)

\* Session s was taken out of the peer map (by the sweeper, or by the
\* acceptor after a full queue) and its sender is dropped.
SessionEvicted(s) == s \in 1..Len(udps) /\ TxDropped(s)

\* The task of session s has returned: its upstream socket or substream is
\* dropped with it and `sessions.remove(&sid)` has run.
SessionTaskEnded(s) == s \in 1..Len(udps) /\ ~udps[s].rx_open

\* C34: once a session is removed from the peer map and its sender dropped,
\* its task eventually terminates (releasing the upstream socket or substream
\* and its telemetry entry).
C34_EvictedTaskTerminates ==
    \A s \in 1..MaxSessions : SessionEvicted(s) ~> SessionTaskEnded(s)

(***************************************************************************)
(* C38                                                                     *)
(***************************************************************************)

\* This step is the sweeper's `sessions.remove(&k)` and it removed a session.
SweeperRemoves(k) ==
    /\ sweep.pc = "remove"
    /\ k \in sweep.to_remove
    /\ sweep' # sweep
    /\ k \notin sweep'.to_remove
    /\ k \in DOMAIN sessions

\* This step put a datagram on the queue of session s.
Enqueued(s) ==
    /\ s \in 1..Len(udps)
    /\ Len(udps'[s].queue) > Len(udps[s].queue)

\* C38: a session the sweeper removes has a last_seen older than idle_timeout
\* at the removal, and no datagram is enqueued on a session the sweeper has
\* evicted: one that arrives between the sweeper's scan and its removal keeps
\* the session, or goes to a new one.
C38_SweptSessionIsIdle ==
    [][ /\ \A k \in Peers : SweeperRemoves(k) => IdleLonger(sessions[k])
        /\ \A s \in 1..MaxSessions : Enqueued(s) => ~udps[s].swept
      ]_vars

(***************************************************************************)
(* C37                                                                     *)
(***************************************************************************)
IsPrefix(s, t) == Len(s) <= Len(t) /\ SubSeq(t, 1, Len(s)) = s

\* Nothing of the tunnel peer's frames is waiting on the substream or in a
\* pending read.
TunnelDrained == tu.wire = <<>> /\ tu.fut = <<>>

\* C37: in a tunnel-backed UDP session the datagrams delivered to the source
\* peer are the frames the tunnel peer wrote, one datagram per frame, same
\* payloads, same order, whatever datagrams of the source peer arrive in
\* between: no read of a frame is abandoned half way, so the stream stays
\* aligned and the read never fails on a length that was never written.
C37_FramesDeliveredInOrder ==
    /\ IsPrefix(tu.delivered, tu.frames)
    /\ tu.err = "none"
    /\ (tu.pc = "select" /\ TunnelDrained) => tu.delivered = tu.frames

(***************************************************************************)
(* C36                                                                     *)
(***************************************************************************)

\* Request q joined a flight another request created and has not returned.
JoinedFlight(q) == cs[q].pc \in {"is_done", "notified", "await", "read_result"}

\* The loader of the flight q joined has finished.
LoaderFinished(q) == JoinedFlight(q) /\ flights[cs[q].flight].done

\* C36: a get_or_load caller that joined a flight in progress returns once
\* that flight's loader has finished, in every interleaving of its done-check
\* and wait registration with the loader's publish, finish and removal, and
\* what it returns is the result that loader published.
C36_JoinedWaiterReturns ==
    /\ \A q \in Requesters : LoaderFinished(q) ~> (cs[q].pc = "done")
    /\ [][\A q \in Requesters :
             (cs[q].pc = "read_result" /\ cs'[q].pc = "done") =>
                 /\ flights[cs[q].flight].result # None
                 /\ cs'[q].result = flights[cs[q].flight].result]_vars

(***************************************************************************)
(* C35                                                                     *)
(***************************************************************************)

\* The status path declined after conn.read had returned bytes to it.
DeclinedAfterReading == sp.pc = "returned" /\ sp.ret = "false" /\ sp.read # <<>>

\* C35: when the status-cache path returns false after reading from the
\* client, the captured buffer it hands back is what it was given followed
\* by every byte it read, in order, none lost and none twice.
C35_FallbackKeepsBytes ==
    DeclinedAfterReading => sp.captured = sp.entry \o sp.read


(***************************************************************************)
(* C40: no change notification is lost by the auto-listener's run loop      *)
(***************************************************************************)
\* The running map holds exactly the eligible services of the manager's state,
\* each with its descriptor.
RunningIsEligible ==
    \E desired \in DesiredMaps(SnapshotServices(clients, primary)) :
        /\ DOMAIN running = DOMAIN desired
        /\ \A k \in DOMAIN desired : running[k].desired = desired[k]

\* The run loop waits in its select! with nothing to wake it, and every call
\* that changed the state has returned.
RunLoopQuiet == wch.pc = "wait" /\ ~wch.unseen /\ wch.pending = 0

\* C40: after a register or unregister call returns, the run loop eventually
\* finishes a reconcile whose snapshot is at least as recent as that call's
\* mutation; a loop that waits with nothing to wake it and no call in progress
\* has its running map equal to the eligible services, and once the mutations
\* stop the loop comes to wait like that for good, so the running map becomes
\* and stays equal to them.
C40_NoNotificationLost ==
    /\ (wch.completed > wch.observed) ~> (wch.observed >= wch.completed)
    /\ [](RunLoopQuiet => RunningIsEligible /\ wch.observed = wch.mutations)
    /\ <>[]RunLoopQuiet

\* A mutation fell between a reconcile's snapshot and its return, and the loop
\* has since reconciled again and holds the eligible services, a listener among
\* them.
C40_Witness ==
    /\ wch.overlapped
    /\ RunLoopQuiet
    /\ wch.observed = wch.mutations
    /\ wch.observed >= 2
    /\ running # EmptyMap
    /\ RunningIsEligible

====
